---- MODULE Spec2Model ----
(***************************************************************************)
(* SmartProp cloud backend: the MQTT listener (cloud/mqtt_listener.py)     *)
(* with its control rules (cloud/sprop_calculations.py).                   *)
(*                                                                         *)
(* Temperatures and humidities are Python floats in the source.  They are  *)
(* modelled in fixed point, in tenths of a unit: 30.0 is 300, 18.0 is 180. *)
(* Python's None is the value None, an absent dictionary key is Absent.    *)
(***************************************************************************)
EXTENDS Integers, Sequences, FiniteSets, TLC

None == "<None>"
Absent == "<absent>"

(***************************************************************************)
(* cloud/sprop_calculations.py                                             *)
(***************************************************************************)

\* The literals of check_temperature_control and check_humidity_control,
\* in tenths.
TEMP_CRITICAL_HIGH == 300
TEMP_CRITICAL_LOW == 100
TEMP_OPTIMAL_MIN == 180
TEMP_OPTIMAL_MAX == 240
HUMIDITY_OPTIMAL_MIN == 400
HUMIDITY_OPTIMAL_MAX == 700

check_temperature_control(temp) ==
    IF temp > TEMP_CRITICAL_HIGH
    THEN [fan_action |-> "ON", lid_action |-> "OPEN", status |-> "critical_high"]
    ELSE IF temp < TEMP_CRITICAL_LOW
    THEN [fan_action |-> "OFF", lid_action |-> "CLOSED", status |-> "critical_low"]
    ELSE IF temp > TEMP_OPTIMAL_MAX
    THEN [fan_action |-> "ON", lid_action |-> "OPEN", status |-> "too_high"]
    ELSE IF temp < TEMP_OPTIMAL_MIN
    THEN [fan_action |-> "OFF", lid_action |-> "CLOSED", status |-> "too_low"]
    ELSE [fan_action |-> None, lid_action |-> None, status |-> "optimal"]

check_humidity_control(humidity) ==
    IF humidity > HUMIDITY_OPTIMAL_MAX
    THEN [fan_action |-> "ON", lid_action |-> "OPEN", status |-> "too_high"]
    ELSE IF humidity < HUMIDITY_OPTIMAL_MIN
    THEN [fan_action |-> "OFF", lid_action |-> "CLOSED", status |-> "too_low"]
    ELSE [fan_action |-> None, lid_action |-> "CLOSED", status |-> "optimal"]

\* The final "both optimal" fix-up of the normal-priority branch.
DefaultWhenOptimal(action, temp_control, humidity_control, default) ==
    IF /\ temp_control.status = "optimal"
       /\ humidity_control.status = "optimal"
       /\ action = None
    THEN default
    ELSE action

\* Mutant: a humidity opinion on the fan wins over every temperature, the
\* emergency tier included.
get_combined_humidity_first(temp, humidity) ==
    LET temp_control == check_temperature_control(temp)
        humidity_control == check_humidity_control(humidity)
        use_humidity == humidity_control.fan_action # None
        fan == IF use_humidity \/ temp_control.fan_action = None
               THEN humidity_control.fan_action
               ELSE temp_control.fan_action
        lid == IF use_humidity \/ temp_control.lid_action = None
               THEN humidity_control.lid_action
               ELSE temp_control.lid_action
    IN  [fan_action |-> DefaultWhenOptimal(fan, temp_control, humidity_control, "OFF"),
         lid_action |-> DefaultWhenOptimal(lid, temp_control, humidity_control, "CLOSED"),
         temp_status |-> temp_control.status,
         humidity_status |-> humidity_control.status]

\* Mutant: the humidity > 70 tier is missing, temperature always goes first.
get_combined_temperature_first(temp, humidity) ==
    LET temp_control == check_temperature_control(temp)
        humidity_control == check_humidity_control(humidity)
        fan == IF temp_control.fan_action # None
               THEN temp_control.fan_action
               ELSE humidity_control.fan_action
        lid == IF temp_control.lid_action # None
               THEN temp_control.lid_action
               ELSE humidity_control.lid_action
    IN  [fan_action |-> DefaultWhenOptimal(fan, temp_control, humidity_control, "OFF"),
         lid_action |-> DefaultWhenOptimal(lid, temp_control, humidity_control, "CLOSED"),
         temp_status |-> temp_control.status,
         humidity_status |-> humidity_control.status]

\* Mutant: the final "both optimal" fix-up is missing, so a fan on which
\* neither rule has an opinion is left alone.
get_combined_no_default(temp, humidity) ==
    LET temp_control == check_temperature_control(temp)
        humidity_control == check_humidity_control(humidity)
        emergency == temp > TEMP_CRITICAL_HIGH \/ temp < TEMP_CRITICAL_LOW
        humid == ~emergency /\ humidity > HUMIDITY_OPTIMAL_MAX
        fan == IF emergency \/ (~humid /\ temp_control.fan_action # None)
               THEN temp_control.fan_action
               ELSE humidity_control.fan_action
        lid == IF emergency \/ (~humid /\ temp_control.lid_action # None)
               THEN temp_control.lid_action
               ELSE humidity_control.lid_action
    IN  [fan_action |-> fan,
         lid_action |-> lid,
         temp_status |-> temp_control.status,
         humidity_status |-> humidity_control.status]

\* Mutant: every comparison is inclusive (>= for >, <= for <), so a boundary
\* value belongs to the band beyond it.
get_combined_inclusive(temp, humidity) ==
    LET temp_control ==
            IF temp >= TEMP_CRITICAL_HIGH
            THEN [fan_action |-> "ON", lid_action |-> "OPEN", status |-> "critical_high"]
            ELSE IF temp <= TEMP_CRITICAL_LOW
            THEN [fan_action |-> "OFF", lid_action |-> "CLOSED", status |-> "critical_low"]
            ELSE IF temp >= TEMP_OPTIMAL_MAX
            THEN [fan_action |-> "ON", lid_action |-> "OPEN", status |-> "too_high"]
            ELSE IF temp <= TEMP_OPTIMAL_MIN
            THEN [fan_action |-> "OFF", lid_action |-> "CLOSED", status |-> "too_low"]
            ELSE [fan_action |-> None, lid_action |-> None, status |-> "optimal"]
        humidity_control ==
            IF humidity >= HUMIDITY_OPTIMAL_MAX
            THEN [fan_action |-> "ON", lid_action |-> "OPEN", status |-> "too_high"]
            ELSE IF humidity <= HUMIDITY_OPTIMAL_MIN
            THEN [fan_action |-> "OFF", lid_action |-> "CLOSED", status |-> "too_low"]
            ELSE [fan_action |-> None, lid_action |-> "CLOSED", status |-> "optimal"]
        emergency == temp >= TEMP_CRITICAL_HIGH \/ temp <= TEMP_CRITICAL_LOW
        humid == ~emergency /\ humidity >= HUMIDITY_OPTIMAL_MAX
        fan == IF emergency \/ (~humid /\ temp_control.fan_action # None)
               THEN temp_control.fan_action
               ELSE humidity_control.fan_action
        lid == IF emergency \/ (~humid /\ temp_control.lid_action # None)
               THEN temp_control.lid_action
               ELSE humidity_control.lid_action
    IN  [fan_action |-> DefaultWhenOptimal(fan, temp_control, humidity_control, "OFF"),
         lid_action |-> DefaultWhenOptimal(lid, temp_control, humidity_control, "CLOSED"),
         temp_status |-> temp_control.status,
         humidity_status |-> humidity_control.status]

\* Mutant: in the normal case the lid follows the humidity rule whatever
\* the temperature rule says.
get_combined_lid_by_humidity(temp, humidity) ==
    LET temp_control == check_temperature_control(temp)
        humidity_control == check_humidity_control(humidity)
        fan_lid ==
            IF temp > TEMP_CRITICAL_HIGH \/ temp < TEMP_CRITICAL_LOW
            THEN <<temp_control.fan_action, temp_control.lid_action>>
            ELSE IF humidity > HUMIDITY_OPTIMAL_MAX
            THEN <<humidity_control.fan_action, humidity_control.lid_action>>
            ELSE LET fan == IF temp_control.fan_action # None
                            THEN temp_control.fan_action
                            ELSE humidity_control.fan_action
                     lid == humidity_control.lid_action
                 IN  <<DefaultWhenOptimal(fan, temp_control, humidity_control, "OFF"),
                       DefaultWhenOptimal(lid, temp_control, humidity_control, "CLOSED")>>
    IN  [fan_action |-> fan_lid[1],
         lid_action |-> fan_lid[2],
         temp_status |-> temp_control.status,
         humidity_status |-> humidity_control.status]

get_combined_control_recommendation(temp, humidity) ==
    LET temp_control == check_temperature_control(temp)
        humidity_control == check_humidity_control(humidity)
        fan_lid ==
            IF temp > TEMP_CRITICAL_HIGH \/ temp < TEMP_CRITICAL_LOW
            THEN <<temp_control.fan_action, temp_control.lid_action>>
            ELSE IF humidity > HUMIDITY_OPTIMAL_MAX
            THEN <<humidity_control.fan_action, humidity_control.lid_action>>
            ELSE LET fan == IF temp_control.fan_action # None
                            THEN temp_control.fan_action
                            ELSE humidity_control.fan_action
                     lid == IF temp_control.lid_action # None
                            THEN temp_control.lid_action
                            ELSE humidity_control.lid_action
                 IN  <<DefaultWhenOptimal(fan, temp_control, humidity_control, "OFF"),
                       DefaultWhenOptimal(lid, temp_control, humidity_control, "CLOSED")>>
    IN  [fan_action |-> fan_lid[1],
         lid_action |-> fan_lid[2],
         temp_status |-> temp_control.status,
         humidity_status |-> humidity_control.status]


(***************************************************************************)
(* Strings.  str.upper(), str.lower() and str.strip() are given by their   *)
(* values on the strings the messages of this model carry; every other     *)
(* string of the model is already in the form the method returns.          *)
(***************************************************************************)
Upper(s) ==
    CASE s = "on" -> "ON"
      [] s = "On" -> "ON"
      [] s = "off" -> "OFF"
      [] s = "open" -> "OPEN"
      [] s = "Close" -> "CLOSE"
      [] s = "closed" -> "CLOSED"
      [] s = "running" -> "RUNNING"
      [] s = "Start" -> "START"
      [] s = "stopped" -> "STOPPED"
      [] s = "stop" -> "STOP"
      [] s = "opened" -> "OPENED"
      [] s = "auto" -> "AUTO"
      [] OTHER -> s

Lower(s) ==
    CASE s = "TRUE" -> "true"
      [] s = "True" -> "true"
      [] s = "FALSE" -> "false"
      [] OTHER -> s

Strip(s) ==
    CASE s = " off " -> "off"
      [] s = "ON " -> "ON"
      [] OTHER -> s

\* Python truthiness of dict.get(key): a missing key gives None, and an
\* empty string is falsy too.
Truthy(v) == v # Absent /\ v # None /\ v # ""

\* a or b
Or(a, b) == IF Truthy(a) THEN a ELSE b

(***************************************************************************)
(* cloud/config.py: the topics, as their '/'-separated segments.           *)
(***************************************************************************)
MQTT_SENSOR_TOPIC == <<"sprop", "sensor", "data">>
MQTT_CMD_FAN_TOPIC == <<"sprop", "cmd", "fan">>
MQTT_CMD_LID_TOPIC == <<"sprop", "cmd", "lid">>
MQTT_CMD_VALVE_TOPIC == <<"sprop", "cmd", "valve">>
MQTT_STATUS_FAN_TOPIC == <<"sprop", "status", "fan">>
MQTT_STATUS_LID_TOPIC == <<"sprop", "status", "lid">>
MQTT_STATUS_VALVE_TOPIC == <<"sprop", "status", "valve">>

\* topic.startswith('sprop/status/')
IsStatusTopic(topic) ==
    Len(topic) >= 3 /\ topic[1] = "sprop" /\ topic[2] = "status"

\* topic.split('/')[-1]
DeviceType(topic) == topic[Len(topic)]

(***************************************************************************)
(* cloud/mqtt_listener.py                                                  *)
(***************************************************************************)
VARIABLES
    last_fan_state,     \* SPropMQTTListener.last_fan_state
    last_lid_state,     \* SPropMQTTListener.last_lid_state
    last_valve_state,   \* SPropMQTTListener.last_valve_state
    setting_value,      \* system_settings row 'optimization_enabled', or Absent
    db,                 \* the database server: "up", "error" (statements
                        \* raise, the connection lives and rollback works)
                        \* or "down" (statements raise and break the
                        \* connection, connecting raises)
    db_conn,            \* SPropMQTTListener.db_conn: "open", or "closed"
                        \* once a statement has found the server down
    link,               \* the broker link: "up", "down" (not connected),
                        \* "rejecting" (publish returns rc # 0) or "broken"
                        \* (publish raises)
    msg,                \* the message on_message handled last
    enabled,            \* what is_optimization_enabled returned for it
    control,            \* the recommendation computed for it
    current_fan_state,  \* the local of check_thresholds_and_control
    current_lid_state,  \* the local of check_thresholds_and_control
    cmds,               \* the publish_command calls made for it, in order
    inserted,           \* the row save_sensor_data inserted for it
    pc,                 \* where on_message stands in handling it: "idle"
                        \* between two messages, else the step that is next
    status_response,    \* what GET /api/v1/optimization/status answered, if
                        \* that request is the last thing that happened
    put_response,       \* what PUT /api/v1/optimization/status answered, if
                        \* that request is the last thing that happened
    sensor_data,        \* the rows of table sensor_data a query finds
    users,              \* the rows of table users
    request,            \* a request to the API
    response,           \* the answer to it
    arg_temp,           \* a temperature given to the rule engine
    arg_humidity,       \* a humidity given to the rule engine
    result              \* what the rule engine returned for them

tracker == <<last_fan_state, last_lid_state, last_valve_state>>
store == <<setting_value, db>>
handled == <<msg, enabled, control, current_fan_state, current_lid_state,
             cmds, inserted, pc>>
engine == <<arg_temp, arg_humidity, result>>
api == <<sensor_data, users, request, response>>
vars == <<tracker, store, db_conn, link, handled, status_response,
          put_response, engine, api>>

\* Mutant: the synonyms are mapped onto each other first (START to RUNNING,
\* STOP to STOPPED), so that one pass does not reach the standard word.
status_map_chained(status) ==
    CASE status = "RUNNING" -> "ON"
      [] status = "START" -> "RUNNING"
      [] status = "STOPPED" -> "OFF"
      [] status = "STOP" -> "STOPPED"
      [] status = "OPENED" -> "OPEN"
      [] status = "CLOSED" -> "CLOSE"
      [] OTHER -> status

\* status_map.get(status, status), then the lid's CLOSE -> CLOSED.
status_map(status) ==
    CASE status = "RUNNING" -> "ON"
      [] status = "START" -> "ON"
      [] status = "STOPPED" -> "OFF"
      [] status = "STOP" -> "OFF"
      [] status = "OPENED" -> "OPEN"
      [] status = "CLOSED" -> "CLOSE"
      [] OTHER -> status

\* Mutant: the status is looked up as it was spelled.
NormalizedStatus_case_sensitive(device_type, status_field) ==
    LET status == IF status_field = Absent THEN "" ELSE status_field
        normalized_status == status_map(status)
    IN  IF device_type = "lid" /\ normalized_status = "CLOSE"
        THEN "CLOSED"
        ELSE normalized_status

\* status_data.get('status', '').upper(), normalized.
NormalizedStatus(device_type, status_field) ==
    LET status == Upper(IF status_field = Absent THEN "" ELSE status_field)
        normalized_status == status_map(status)
    IN  IF device_type = "lid" /\ normalized_status = "CLOSE"
        THEN "CLOSED"
        ELSE normalized_status

\* A payload is a record: json says whether json.loads accepts it, the other
\* fields are the keys of the object it holds (Absent: no such key).
NotAString == "<not a string>"

\* Mutant: a status message fills a tracker only while it is still unset.
handle_device_status_first_write(topic, payload) ==
    IF ~payload.json \/ payload.status = NotAString
    THEN tracker
    ELSE LET device_type == DeviceType(topic)
             normalized_status == NormalizedStatus(device_type, payload.status)
         IN  CASE device_type = "fan" /\ last_fan_state = None ->
                    <<normalized_status, last_lid_state, last_valve_state>>
               [] device_type = "lid" /\ last_lid_state = None ->
                    <<last_fan_state, normalized_status, last_valve_state>>
               [] device_type = "valve" /\ last_valve_state = None ->
                    <<last_fan_state, last_lid_state, normalized_status>>
               [] OTHER -> tracker

\* Mutant: a status message without a status leaves the tracker as it is.
handle_device_status_needs_status(topic, payload) ==
    IF ~payload.json \/ payload.status \in {NotAString, Absent, ""}
    THEN tracker
    ELSE LET device_type == DeviceType(topic)
             normalized_status == NormalizedStatus(device_type, payload.status)
         IN  CASE device_type = "fan" ->
                    <<normalized_status, last_lid_state, last_valve_state>>
               [] device_type = "lid" ->
                    <<last_fan_state, normalized_status, last_valve_state>>
               [] device_type = "valve" ->
                    <<last_fan_state, last_lid_state, normalized_status>>
               [] OTHER -> tracker

\* Mutant: a status from a device that is neither fan nor lid is taken for
\* the valve's.
handle_device_status_valve_by_default(topic, payload) ==
    IF ~payload.json \/ payload.status = NotAString
    THEN tracker
    ELSE LET device_type == DeviceType(topic)
             normalized_status == NormalizedStatus(device_type, payload.status)
         IN  CASE device_type = "fan" ->
                    <<normalized_status, last_lid_state, last_valve_state>>
               [] device_type = "lid" ->
                    <<last_fan_state, normalized_status, last_valve_state>>
               [] OTHER ->
                    <<last_fan_state, last_lid_state, normalized_status>>

\* handle_device_status: the three trackers after the message.  A payload
\* that is no JSON, or a status that has no upper(), raises and is caught
\* before any tracker is written.
handle_device_status(topic, payload) ==
    IF ~payload.json \/ payload.status = NotAString
    THEN tracker
    ELSE LET device_type == DeviceType(topic)
             normalized_status == NormalizedStatus(device_type, payload.status)
         IN  CASE device_type = "fan" ->
                    <<normalized_status, last_lid_state, last_valve_state>>
               [] device_type = "lid" ->
                    <<last_fan_state, normalized_status, last_valve_state>>
               [] device_type = "valve" ->
                    <<last_fan_state, last_lid_state, normalized_status>>
               [] OTHER -> tracker

(***************************************************************************)
(* Time is counted in hours relative to the moment the message is handled  *)
(* (datetime.now(GMT8) is 0).  A payload's timestamp is <<kind, hours>>:   *)
(* kind "absent" (no key), "empty" (falsy), "invalid" (fromisoformat       *)
(* raises) or "iso" (a date, hours from now).                              *)
(***************************************************************************)
FUTURE_LIMIT_HOURS == 24
PAST_LIMIT_HOURS == 8760

\* 'fan_state' in data: data['fan_state'].upper()
UpperIfPresent(v) == IF v = Absent THEN Absent ELSE Upper(v)

\* Mutant: a reading that lacks a required field is let through.
parse_json_message_lenient(payload) ==
    IF ~payload.json
    THEN <<>>
    ELSE <<[payload EXCEPT
              !.timestamp = IF payload.timestamp[1] = "iso"
                            THEN payload.timestamp[2]
                            ELSE 0,
              !.fan_state = UpperIfPresent(payload.fan_state),
              !.lid_state = UpperIfPresent(payload.lid_state),
              !.valve_state = UpperIfPresent(payload.valve_state)]>>

\* Mutant: a timestamp that is no date fails the whole message.
parse_json_message_strict_timestamp(payload) ==
    IF ~payload.json
    THEN <<>>
    ELSE IF payload.missing # {}
    THEN <<>>
    ELSE IF payload.timestamp[1] = "invalid"
    THEN <<>>
    ELSE <<[payload EXCEPT
              !.timestamp = IF payload.timestamp[1] = "iso"
                            THEN payload.timestamp[2]
                            ELSE 0,
              !.fan_state = UpperIfPresent(payload.fan_state),
              !.lid_state = UpperIfPresent(payload.lid_state),
              !.valve_state = UpperIfPresent(payload.valve_state)]>>

\* parse_json_message: <<>> for None, else <<data>>.
parse_json_message(payload) ==
    IF ~payload.json
    THEN <<>>
    ELSE IF payload.missing # {}
    THEN <<>>
    ELSE <<[payload EXCEPT
              !.timestamp = IF payload.timestamp[1] = "iso"
                            THEN payload.timestamp[2]
                            ELSE 0,
              !.fan_state = UpperIfPresent(payload.fan_state),
              !.lid_state = UpperIfPresent(payload.lid_state),
              !.valve_state = UpperIfPresent(payload.valve_state)]>>

\* Mutant: a timestamp older than a year is stored as it came.
save_sensor_data_no_clamp(data) ==
    IF db_conn = "closed"
    THEN [rows |-> <<>>, ended |-> "raised"]
    ELSE IF data.timestamp > FUTURE_LIMIT_HOURS
    THEN [rows |-> <<>>, ended |-> "ok"]
    ELSE IF db = "down"
    THEN [rows |-> <<>>, ended |-> "raised"]
    ELSE IF db = "error"
    THEN [rows |-> <<>>, ended |-> "ok"]
    ELSE [rows |-> <<[timestamp |-> data.timestamp,
                      temperature |-> data.temperature,
                      humidity |-> data.humidity]>>,
          ended |-> "ok"]

\* save_sensor_data: what it inserts, and whether it returns ("ok") or lets
\* an exception out ("raised").  On a closed connection cursor() raises, with
\* the server down execute() raises and leaves the connection closed; in
\* both cases the rollback of the except clause raises in its turn.  With
\* the server in error execute() raises and the rollback works.
save_sensor_data(data) ==
    IF db_conn = "closed"
    THEN [rows |-> <<>>, ended |-> "raised"]
    ELSE IF data.timestamp > FUTURE_LIMIT_HOURS
    THEN [rows |-> <<>>, ended |-> "ok"]
    ELSE IF db = "down"
    THEN [rows |-> <<>>, ended |-> "raised"]
    ELSE IF db = "error"
    THEN [rows |-> <<>>, ended |-> "ok"]
    ELSE [rows |-> <<[timestamp |-> IF data.timestamp < 0 - PAST_LIMIT_HOURS
                                    THEN 0
                                    ELSE data.timestamp,
                      temperature |-> data.temperature,
                      humidity |-> data.humidity]>>,
          ended |-> "ok"]

\* Mutant: the stored setting is not looked at.
is_optimization_enabled_always == TRUE

\* Mutant: a failing read counts as disabled.
is_optimization_enabled_fail_closed ==
    IF db # "up"
    THEN FALSE
    ELSE IF setting_value = Absent
    THEN TRUE
    ELSE Lower(setting_value) = "true"

\* is_optimization_enabled.  It is reached on an open connection only:
\* save_sensor_data has raised on a closed one.
is_optimization_enabled ==
    IF db # "up"
    THEN TRUE
    ELSE IF setting_value = Absent
    THEN TRUE
    ELSE Lower(setting_value) = "true"

\* publish_command: the call, with how it ended.
publish_command(topic, action) ==
    [topic |-> topic,
     action |-> action,
     outcome |-> CASE link = "down" -> "not connected"
                   [] link = "broken" -> "exception"
                   [] link = "rejecting" -> "rc nonzero"
                   [] OTHER -> "published"]

\* Mutant: the reading's field is compared as it was spelled.
CurrentState_case_sensitive(reported, last_state) ==
    IF Truthy(reported)
    THEN Strip(reported)
    ELSE IF Truthy(last_state) THEN last_state ELSE "UNKNOWN"

\* Mutant: what the tracker knows goes before what the reading says.
CurrentState_tracker_first(reported, last_state) ==
    IF Truthy(last_state)
    THEN last_state
    ELSE IF Truthy(reported) THEN Upper(Strip(reported)) ELSE "UNKNOWN"

\* The current state of an actuator: the reading's own field (the first
\* truthy alias), else the tracker's state, else 'UNKNOWN'.
CurrentState(reported, last_state) ==
    IF Truthy(reported)
    THEN Upper(Strip(reported))
    ELSE IF Truthy(last_state) THEN last_state ELSE "UNKNOWN"

\* Mutant: fan ON is published without looking at the current state.
fan_control_no_dedup(fan_action, cur) ==
    IF fan_action = "ON"
    THEN [calls |-> <<publish_command(MQTT_CMD_FAN_TOPIC, "ON")>>, last |-> "ON"]
    ELSE IF fan_action = "OFF" /\ cur = "ON"
    THEN [calls |-> <<publish_command(MQTT_CMD_FAN_TOPIC, "OFF")>>, last |-> "OFF"]
    ELSE [calls |-> <<>>, last |-> last_fan_state]

\* Mutant: fan OFF is published unless the fan is known to be OFF.
fan_control_off_unless_off(fan_action, cur) ==
    IF fan_action = "ON" /\ cur # "ON"
    THEN [calls |-> <<publish_command(MQTT_CMD_FAN_TOPIC, "ON")>>, last |-> "ON"]
    ELSE IF fan_action = "OFF" /\ cur # "OFF"
    THEN [calls |-> <<publish_command(MQTT_CMD_FAN_TOPIC, "OFF")>>, last |-> "OFF"]
    ELSE [calls |-> <<>>, last |-> last_fan_state]

\* Fan control: the calls made and the value of last_fan_state after them.
fan_control(fan_action, cur) ==
    IF fan_action = "ON" /\ cur # "ON"
    THEN [calls |-> <<publish_command(MQTT_CMD_FAN_TOPIC, "ON")>>, last |-> "ON"]
    ELSE IF fan_action = "OFF" /\ cur = "ON"
    THEN [calls |-> <<publish_command(MQTT_CMD_FAN_TOPIC, "OFF")>>, last |-> "OFF"]
    ELSE [calls |-> <<>>, last |-> last_fan_state]

\* Mutant: the tracker records the hardware word CLOSE it has just sent.
lid_control_hardware_word(lid_action, cur) ==
    IF lid_action = "OPEN" /\ cur # "OPEN"
    THEN [calls |-> <<publish_command(MQTT_CMD_LID_TOPIC, "OPEN")>>, last |-> "OPEN"]
    ELSE IF lid_action = "CLOSED" /\ cur = "OPEN"
    THEN [calls |-> <<publish_command(MQTT_CMD_LID_TOPIC, "CLOSE")>>, last |-> "CLOSE"]
    ELSE [calls |-> <<>>, last |-> last_lid_state]

\* Mutant: lid OPEN is published without looking at the current state.
lid_control_no_dedup(lid_action, cur) ==
    IF lid_action = "OPEN"
    THEN [calls |-> <<publish_command(MQTT_CMD_LID_TOPIC, "OPEN")>>, last |-> "OPEN"]
    ELSE IF lid_action = "CLOSED" /\ cur = "OPEN"
    THEN [calls |-> <<publish_command(MQTT_CMD_LID_TOPIC, "CLOSE")>>, last |-> "CLOSED"]
    ELSE [calls |-> <<>>, last |-> last_lid_state]

\* Mutant: the decision's word CLOSED is what goes out to the lid.
lid_control_sends_closed(lid_action, cur) ==
    IF lid_action = "OPEN" /\ cur # "OPEN"
    THEN [calls |-> <<publish_command(MQTT_CMD_LID_TOPIC, "OPEN")>>, last |-> "OPEN"]
    ELSE IF lid_action = "CLOSED" /\ cur = "OPEN"
    THEN [calls |-> <<publish_command(MQTT_CMD_LID_TOPIC, "CLOSED")>>, last |-> "CLOSED"]
    ELSE [calls |-> <<>>, last |-> last_lid_state]

\* Lid control: the calls made and the value of last_lid_state after them.
lid_control(lid_action, cur) ==
    IF lid_action = "OPEN" /\ cur # "OPEN"
    THEN [calls |-> <<publish_command(MQTT_CMD_LID_TOPIC, "OPEN")>>, last |-> "OPEN"]
    ELSE IF lid_action = "CLOSED" /\ cur = "OPEN"
    THEN [calls |-> <<publish_command(MQTT_CMD_LID_TOPIC, "CLOSE")>>, last |-> "CLOSED"]
    ELSE [calls |-> <<>>, last |-> last_lid_state]

NoControl ==
    [fan_action |-> None, lid_action |-> None,
     temp_status |-> None, humidity_status |-> None]

\* Mutant: every reconciled reading also sends CLOSE to the valve.
check_thresholds_and_control_closes_valve(data) ==
    IF ~is_optimization_enabled
    THEN [enabled |-> "False", control |-> NoControl,
          current_fan_state |-> None, current_lid_state |-> None,
          calls |-> <<>>,
          last_fan_state |-> last_fan_state, last_lid_state |-> last_lid_state]
    ELSE LET ctl == get_combined_control_recommendation(data.temperature,
                                                        data.humidity)
             cur_fan == CurrentState(Or(Or(data.fan_state, data.relay), data.fan),
                                     last_fan_state)
             cur_lid == CurrentState(Or(data.lid_state, data.lid), last_lid_state)
             f == fan_control(ctl.fan_action, cur_fan)
             l == lid_control(ctl.lid_action, cur_lid)
         IN  [enabled |-> "True", control |-> ctl,
              current_fan_state |-> cur_fan, current_lid_state |-> cur_lid,
              calls |-> f.calls \o l.calls
                          \o <<publish_command(MQTT_CMD_VALVE_TOPIC, "CLOSE")>>,
              last_fan_state |-> f.last, last_lid_state |-> l.last]

\* check_thresholds_and_control: its locals and its effects.
check_thresholds_and_control(data) ==
    IF ~is_optimization_enabled
    THEN [enabled |-> "False", control |-> NoControl,
          current_fan_state |-> None, current_lid_state |-> None,
          calls |-> <<>>,
          last_fan_state |-> last_fan_state, last_lid_state |-> last_lid_state]
    ELSE LET ctl == get_combined_control_recommendation(data.temperature,
                                                        data.humidity)
             cur_fan == CurrentState(Or(Or(data.fan_state, data.relay), data.fan),
                                     last_fan_state)
             cur_lid == CurrentState(Or(data.lid_state, data.lid), last_lid_state)
             f == fan_control(ctl.fan_action, cur_fan)
             l == lid_control(ctl.lid_action, cur_lid)
         IN  [enabled |-> "True", control |-> ctl,
              current_fan_state |-> cur_fan, current_lid_state |-> cur_lid,
              calls |-> f.calls \o l.calls,
              last_fan_state |-> f.last, last_lid_state |-> l.last]

\* What a message that reaches no control step leaves behind.
Idle ==
    [enabled |-> None, control |-> NoControl,
     current_fan_state |-> None, current_lid_state |-> None,
     calls |-> <<>>,
     last_fan_state |-> last_fan_state, last_lid_state |-> last_lid_state]

\* on_message, sensor topic: parse, save, control.  An exception that leaves
\* save_sensor_data ends the handler in on_message's except clause.
\* Every parsed reading ends with a statement on the connection (the INSERT,
\* or the SELECT of is_optimization_enabled), which closes it if the server
\* is down.
on_sensor_message(payload) ==
    LET parsed == parse_json_message(payload)
    IN  IF parsed = <<>>
        THEN [rows |-> <<>>, ctl |-> Idle, conn |-> db_conn]
        ELSE LET saved == save_sensor_data(parsed[1])
             IN  IF saved.ended = "raised"
                 THEN [rows |-> <<>>, ctl |-> Idle, conn |-> "closed"]
                 ELSE [rows |-> saved.rows,
                       ctl |-> check_thresholds_and_control(parsed[1]),
                       conn |-> IF db = "down" THEN "closed" ELSE db_conn]

NoMessage == [topic |-> <<>>, payload |-> [json |-> FALSE]]

\* No request to the API has been made.
NoUser == [username |-> "", email |-> "", password |-> <<>>]
NoRequest == [op |-> "none", days |-> 0, session |-> "", user_data |-> NoUser]
NoResponse == [code |-> 0, data |-> <<>>, detail |-> ""]

Init ==
    /\ last_fan_state = None
    /\ last_lid_state = None
    /\ last_valve_state = None
    /\ setting_value = Absent
    /\ db = "up"
    /\ db_conn = "open"
    /\ link = "up"
    /\ msg = NoMessage
    /\ enabled = None
    /\ control = NoControl
    /\ current_fan_state = None
    /\ current_lid_state = None
    /\ cmds = <<>>
    /\ inserted = <<>>
    /\ pc = "idle"
    /\ status_response = None
    /\ put_response = None
    /\ sensor_data = {}
    /\ users = {}
    /\ request = NoRequest
    /\ response = NoResponse
    /\ arg_temp = 0
    /\ arg_humidity = 0
    /\ result = NoControl

\* on_message for a topic under sprop/status/.
OnStatusMessage(topic, payload) ==
    /\ IsStatusTopic(topic)
    /\ LET after == handle_device_status(topic, payload)
       IN  /\ last_fan_state' = after[1]
           /\ last_lid_state' = after[2]
           /\ last_valve_state' = after[3]
    /\ msg' = [topic |-> topic, payload |-> payload]
    /\ enabled' = None
    /\ control' = NoControl
    /\ current_fan_state' = None
    /\ current_lid_state' = None
    /\ cmds' = <<>>
    /\ inserted' = <<>>
    /\ pc' = pc
    /\ status_response' = None
    /\ put_response' = None
    /\ UNCHANGED <<store, db_conn, link, engine, api>>

\* on_message for the sensor topic.
OnSensorMessage(payload) ==
    /\ LET r == on_sensor_message(payload)
       IN  /\ last_fan_state' = r.ctl.last_fan_state
           /\ last_lid_state' = r.ctl.last_lid_state
           /\ enabled' = r.ctl.enabled
           /\ control' = r.ctl.control
           /\ current_fan_state' = r.ctl.current_fan_state
           /\ current_lid_state' = r.ctl.current_lid_state
           /\ cmds' = r.ctl.calls
           /\ inserted' = r.rows
           /\ db_conn' = r.conn
    /\ msg' = [topic |-> MQTT_SENSOR_TOPIC, payload |-> payload]
    /\ pc' = pc
    /\ status_response' = None
    /\ put_response' = None
    /\ UNCHANGED <<last_valve_state, store, link, engine, api>>

\* on_message for any other topic: logged only.
OnOtherMessage(topic, payload) ==
    /\ ~IsStatusTopic(topic)
    /\ topic # MQTT_SENSOR_TOPIC
    /\ msg' = [topic |-> topic, payload |-> payload]
    /\ enabled' = None
    /\ control' = NoControl
    /\ current_fan_state' = None
    /\ current_lid_state' = None
    /\ cmds' = <<>>
    /\ inserted' = <<>>
    /\ pc' = pc
    /\ status_response' = None
    /\ put_response' = None
    /\ UNCHANGED <<tracker, store, db_conn, link, engine, api>>

(***************************************************************************)
(* The handling of a reading, one step for each access to what the         *)
(* listener shares with the API and the devices: the INSERT, the SELECT of *)
(* the setting, the fan command, the lid command.  The callbacks run one   *)
(* after the other on the network thread of the MQTT client, so a message  *)
(* is taken up only when the one before has been handled.                  *)
(***************************************************************************)
\* on_message for the sensor topic, up to the return of save_sensor_data.
SaveReading(payload) ==
    /\ pc = "idle"
    /\ LET parsed == parse_json_message(payload)
           saved == save_sensor_data(parsed[1])
       IN  IF parsed = <<>>
           THEN /\ inserted' = <<>>
                /\ db_conn' = db_conn
                /\ pc' = "idle"
           ELSE IF saved.ended = "raised"
           THEN /\ inserted' = <<>>
                /\ db_conn' = "closed"
                /\ pc' = "idle"
           ELSE /\ inserted' = saved.rows
                /\ db_conn' = db_conn
                /\ pc' = "setting"
    /\ msg' = [topic |-> MQTT_SENSOR_TOPIC, payload |-> payload]
    /\ enabled' = None
    /\ control' = NoControl
    /\ current_fan_state' = None
    /\ current_lid_state' = None
    /\ cmds' = <<>>
    /\ status_response' = None
    /\ put_response' = None
    /\ UNCHANGED <<tracker, store, link, engine, api>>

\* check_thresholds_and_control, down to the current states: the one read
\* of the setting, and for an enabled one the decision and the two states.
ControlSetting ==
    /\ pc = "setting"
    /\ db_conn' = (IF db = "down" THEN "closed" ELSE db_conn)
    /\ IF ~is_optimization_enabled
       THEN /\ enabled' = "False"
            /\ pc' = "idle"
            /\ UNCHANGED <<control, current_fan_state, current_lid_state>>
       ELSE LET data == parse_json_message(msg.payload)[1]
            IN  /\ enabled' = "True"
                /\ control' = get_combined_control_recommendation(
                                  data.temperature, data.humidity)
                /\ current_fan_state' =
                      CurrentState(Or(Or(data.fan_state, data.relay), data.fan),
                                   last_fan_state)
                /\ current_lid_state' =
                      CurrentState(Or(data.lid_state, data.lid), last_lid_state)
                /\ pc' = "fan"
    /\ status_response' = None
    /\ put_response' = None
    /\ UNCHANGED <<tracker, store, link, msg, cmds, inserted, engine, api>>

\* check_thresholds_and_control, the fan.
ControlFan ==
    /\ pc = "fan"
    /\ LET f == fan_control(control.fan_action, current_fan_state)
       IN  /\ cmds' = cmds \o f.calls
           /\ last_fan_state' = f.last
    /\ pc' = "lid"
    /\ status_response' = None
    /\ put_response' = None
    /\ UNCHANGED <<last_lid_state, last_valve_state, store, db_conn, link, msg,
                   enabled, control, current_fan_state, current_lid_state,
                   inserted, engine, api>>

\* Mutant: the setting is read again before the lid, which is left alone
\* when the setting has been switched off in the meantime.
ControlLid_reads_setting_again ==
    /\ pc = "lid"
    /\ LET l == IF is_optimization_enabled
                THEN lid_control(control.lid_action, current_lid_state)
                ELSE [calls |-> <<>>, last |-> last_lid_state]
       IN  /\ cmds' = cmds \o l.calls
           /\ last_lid_state' = l.last
    /\ pc' = "idle"
    /\ status_response' = None
    /\ put_response' = None
    /\ UNCHANGED <<last_fan_state, last_valve_state, store, db_conn, link, msg,
                   enabled, control, current_fan_state, current_lid_state,
                   inserted, engine, api>>

\* check_thresholds_and_control, the lid.
ControlLid ==
    /\ pc = "lid"
    /\ LET l == lid_control(control.lid_action, current_lid_state)
       IN  /\ cmds' = cmds \o l.calls
           /\ last_lid_state' = l.last
    /\ pc' = "idle"
    /\ status_response' = None
    /\ put_response' = None
    /\ UNCHANGED <<last_fan_state, last_valve_state, store, db_conn, link, msg,
                   enabled, control, current_fan_state, current_lid_state,
                   inserted, engine, api>>

\* on_message for a topic under sprop/status/, once the message before it
\* has been handled.
NextStatusMessage(topic, payload) ==
    /\ pc = "idle"
    /\ OnStatusMessage(topic, payload)

\* Mutant: the statement inserts the row and leaves an existing one alone.
set_optimization_status_insert_only(status_enabled) ==
    /\ IF db = "up"
       THEN /\ setting_value' =
                  (IF setting_value # Absent
                   THEN setting_value
                   ELSE IF status_enabled THEN "true" ELSE "false")
            /\ put_response' = (IF status_enabled THEN "True" ELSE "False")
       ELSE /\ setting_value' = setting_value
            /\ put_response' = "500"
    /\ status_response' = None
    /\ UNCHANGED <<tracker, db, db_conn, link, handled, engine, api>>

\* PUT /api/v1/optimization/status: one upsert of str(enabled).lower() on a
\* connection of its own, answered with the status it was given; with the
\* database away connecting or the statement raises, nothing is written and
\* the answer is 500.
set_optimization_status(status_enabled) ==
    /\ IF db = "up"
       THEN /\ setting_value' = (IF status_enabled THEN "true" ELSE "false")
            /\ put_response' = (IF status_enabled THEN "True" ELSE "False")
       ELSE /\ setting_value' = setting_value
            /\ put_response' = "500"
    /\ status_response' = None
    /\ UNCHANGED <<tracker, db, db_conn, link, handled, engine, api>>

\* GET /api/v1/optimization/status, on a connection of its own: connecting
\* or the SELECT raises unless the server is up, and the except clause
\* answers enabled=True.
optimization_status ==
    IF db # "up"
    THEN TRUE
    ELSE IF setting_value = Absent
    THEN TRUE
    ELSE Lower(setting_value) = "true"

get_optimization_status ==
    /\ status_response' = (IF optimization_status THEN "True" ELSE "False")
    /\ put_response' = None
    /\ UNCHANGED <<tracker, store, db_conn, link, handled, engine, api>>

(***************************************************************************)
(* GET /api/v1/sensor-data.  Timestamps are counted in minutes as the      *)
(* database compares them, relative to its NOW() (0) at the request.       *)
(***************************************************************************)
FALLBACK_PER_DAY == 17280
FALLBACK_MAX == 10000

\* end_date_utc and start_date_utc: now plus one minute, less eight hours,
\* and days before that.
end_date_utc == 1 - 8 * 60
start_date_utc(days) == end_date_utc - days * 24 * 60

\* timestamp <= NOW() + INTERVAL '1 day'
NotAhead(row) == row.timestamp <= 24 * 60

\* The orders in which ORDER BY timestamp ASC may return a set of rows (rows
\* of one timestamp come in any order).
RECURSIVE OrderByTimestampAsc(_)
OrderByTimestampAsc(rows) ==
    IF rows = {}
    THEN {<<>>}
    ELSE LET first == {r \in rows :
                          \A q \in rows : r.timestamp <= q.timestamp}
         IN  UNION {{<<r>> \o rest : rest \in OrderByTimestampAsc(rows \ {r})} :
                     r \in first}

\* reversed(rows)
RECURSIVE reversed(_)
reversed(rows) ==
    IF rows = <<>> THEN <<>> ELSE Append(reversed(Tail(rows)), Head(rows))

\* ORDER BY timestamp DESC
OrderByTimestampDesc(rows) == {reversed(asc) : asc \in OrderByTimestampAsc(rows)}

\* LIMIT
Limit(rows, limit) ==
    IF Len(rows) <= limit THEN rows ELSE SubSeq(rows, 1, limit)

\* The results the three queries may return.
WindowQuery(days) ==
    OrderByTimestampAsc({r \in sensor_data :
                            /\ r.timestamp >= start_date_utc(days)
                            /\ r.timestamp <= end_date_utc
                            /\ NotAhead(r)})

LatestQuery ==
    {Limit(desc, 1) : desc \in OrderByTimestampDesc({r \in sensor_data : NotAhead(r)})}

FallbackQuery(days) ==
    LET limit == IF days * FALLBACK_PER_DAY <= FALLBACK_MAX
                 THEN days * FALLBACK_PER_DAY
                 ELSE FALLBACK_MAX
    IN  {Limit(desc, limit) :
            desc \in OrderByTimestampDesc({r \in sensor_data : NotAhead(r)})}

\* sorted(rows, key=lambda x: x['timestamp']): stable.
RECURSIVE sorted(_)
sorted(rows) ==
    IF rows = <<>>
    THEN <<>>
    ELSE LET rest == sorted(Tail(rows))
             k == Cardinality({i \in DOMAIN rest :
                                  rest[i].timestamp < Head(rows).timestamp})
         IN  SubSeq(rest, 1, k) \o <<Head(rows)>> \o SubSeq(rest, k + 1, Len(rest))

\* Mutant: the window's rows alone are returned.
rows_to_return_window_only(rows, latest_row, fallback) ==
    sorted(rows)

\* Mutant: the newest reading comes first.
rows_to_return_newest_first(rows, latest_row, fallback) ==
    reversed(sorted(IF rows # <<>>
                    THEN IF /\ latest_row # <<>>
                            /\ \A i \in DOMAIN rows :
                                  rows[i].timestamp # latest_row[1].timestamp
                         THEN Append(rows, latest_row[1])
                         ELSE rows
                    ELSE reversed(fallback)))

\* The rows get_sensor_data goes on with, given what its queries returned
\* (the fallback query is made only if the window's is empty).
rows_to_return(rows, latest_row, fallback) ==
    sorted(IF rows # <<>>
           THEN IF /\ latest_row # <<>>
                   /\ \A i \in DOMAIN rows :
                         rows[i].timestamp # latest_row[1].timestamp
                THEN Append(rows, latest_row[1])
                ELSE rows
           ELSE reversed(fallback))

\* A row as a SensorDataPoint: a timestamp that is naive or in UTC is moved
\* back eight hours, one in another zone is the same instant in UTC.
SensorDataPoint(row, session) ==
    [row EXCEPT !.timestamp = IF session = "UTC" THEN @ - 8 * 60 ELSE @]

\* GET /api/v1/sensor-data?days=...  FastAPI refuses days outside 1..365;
\* any exception is answered 500.
get_sensor_data(days, session) ==
    /\ request' = [NoRequest EXCEPT !.op = "get_sensor_data",
                                    !.days = days, !.session = session]
    /\ IF days < 1 \/ days > 365
       THEN response' = [NoResponse EXCEPT !.code = 422]
       ELSE IF db # "up"
       THEN response' = [NoResponse EXCEPT !.code = 500,
                                           !.detail = "Error retrieving sensor data"]
       ELSE \E rows \in WindowQuery(days), latest_row \in LatestQuery,
               fallback \in FallbackQuery(days) :
               LET returned == rows_to_return(rows, latest_row, fallback)
               IN  response' =
                       [NoResponse EXCEPT
                          !.code = 200,
                          !.data = [i \in DOMAIN returned |->
                                       SensorDataPoint(returned[i], session)]]
    /\ UNCHANGED <<tracker, store, db_conn, link, handled, status_response,
                   put_response, engine, sensor_data, users>>

(***************************************************************************)
(* POST /api/v1/auth/register.  A password is the sequence of the numbers  *)
(* of bytes its characters take in UTF-8.                                  *)
(***************************************************************************)
MAX_PASSWORD_BYTES == 72
MIN_PASSWORD_LENGTH == 6

\* len(password.encode('utf-8'))
RECURSIVE Utf8Length(_)
Utf8Length(password) ==
    IF password = <<>> THEN 0 ELSE Head(password) + Utf8Length(Tail(password))

\* password.encode('utf-8')[:n].decode('utf-8', errors='ignore'): the
\* characters that fit whole.
RECURSIVE Utf8Prefix(_, _)
Utf8Prefix(password, n) ==
    IF password = <<>> \/ Head(password) > n
    THEN <<>>
    ELSE <<Head(password)>> \o Utf8Prefix(Tail(password), n - Head(password))

\* get_password_hash: ValueError for an empty password; one longer than the
\* limit is cut to it with a warning; the hash is of what is left.
get_password_hash(password) ==
    IF password = <<>>
    THEN [raised |-> TRUE, warned |-> FALSE, hashed |-> <<>>]
    ELSE IF Utf8Length(password) > MAX_PASSWORD_BYTES
    THEN [raised |-> FALSE, warned |-> TRUE,
          hashed |-> <<"bcrypt", Utf8Prefix(password, MAX_PASSWORD_BYTES)>>]
    ELSE [raised |-> FALSE, warned |-> FALSE, hashed |-> <<"bcrypt", password>>]

\* get_user_by_username, get_user_by_email: the rows found; none on any
\* exception.
get_user_by_username(username) ==
    IF db # "up" THEN {} ELSE {u \in users : u.username = username}

get_user_by_email(email) ==
    IF db # "up" THEN {} ELSE {u \in users : u.email = email}

\* register.  UserCreate refuses a password of fewer than six characters
\* (422) before the handler runs.
register(user_data) ==
    LET password_length == Utf8Length(user_data.password)
        hash == get_password_hash(user_data.password)
        Refuse(code, detail) ==
            /\ response' = [NoResponse EXCEPT !.code = code, !.detail = detail]
            /\ users' = users
    IN  /\ request' = [NoRequest EXCEPT !.op = "register",
                                        !.user_data = user_data]
        /\ IF Len(user_data.password) < MIN_PASSWORD_LENGTH
           THEN Refuse(422, "validation")
           ELSE IF get_user_by_username(user_data.username) # {}
           THEN Refuse(400, "Username already registered")
           ELSE IF get_user_by_email(user_data.email) # {}
           THEN Refuse(400, "Email already registered")
           ELSE IF password_length > MAX_PASSWORD_BYTES
           THEN Refuse(400, "Password is too long")
           ELSE IF hash.raised
           THEN Refuse(400, "Invalid password")
           ELSE IF db # "up"
           THEN Refuse(500, "Error registering user")
           ELSE /\ users' = users \cup
                            {[username |-> user_data.username,
                              email |-> user_data.email,
                              hashed_password |-> hash.hashed]}
                /\ response' = [NoResponse EXCEPT !.code = 201]
        /\ UNCHANGED <<tracker, store, db_conn, link, handled, status_response,
                       put_response, engine, sensor_data>>

\* The environment: the broker link changes.
LinkChanges(l) ==
    /\ l # link
    /\ link' = l
    /\ status_response' = None
    /\ put_response' = None
    /\ UNCHANGED <<tracker, store, db_conn, handled, engine, api>>

\* The environment: the database server goes away or comes back.  The
\* listener connects once, in start(): a closed db_conn stays closed.
DbChanges(d) ==
    /\ d # db
    /\ db' = d
    /\ status_response' = None
    /\ put_response' = None
    /\ UNCHANGED <<tracker, setting_value, db_conn, link, handled, engine, api>>

(***************************************************************************)
(* The inputs.                                                             *)
(***************************************************************************)
StatusPayload(status) == [json |-> TRUE, status |-> status]

NotJsonStatus == [json |-> FALSE, status |-> Absent]

StatusOn(topic, statuses) ==
    {[topic |-> topic, payload |-> StatusPayload(s)] : s \in statuses}

\* The status messages of the control loop: each actuator reports in its own
\* vocabulary; one payload is no JSON, one has no status, one an empty one,
\* one status is no string, and one topic names no actuator.
StatusMessages ==
    StatusOn(MQTT_STATUS_FAN_TOPIC,
             {"running", "stopped", "auto", Absent, NotAString})
        \cup StatusOn(MQTT_STATUS_LID_TOPIC, {"opened", "CLOSED", "Close", ""})
        \cup StatusOn(MQTT_STATUS_VALVE_TOPIC, {"opened", "CLOSED"})
        \cup StatusOn(<<"sprop", "status", "pump">>, {"running"})
        \cup {[topic |-> MQTT_STATUS_LID_TOPIC, payload |-> NotJsonStatus]}

OtherMessages ==
    {[topic |-> <<"sprop", "sensor", "debug">>, payload |-> NotJsonStatus]}

Reading(missing, temperature, humidity, timestamp, fan_state, relay, fan, lid_state, lid, valve_state) ==
    [json |-> TRUE, missing |-> missing,
     temperature |-> temperature, humidity |-> humidity,
     timestamp |-> timestamp,
     fan_state |-> fan_state, relay |-> relay, fan |-> fan,
     lid_state |-> lid_state, lid |-> lid, valve_state |-> valve_state]

NotJson == [Reading({}, 0, 0, <<"absent", 0>>, Absent, Absent, Absent,
                    Absent, Absent, Absent) EXCEPT !.json = FALSE]

SensorTemps == {210, 305}
SensorHumidities == {550}

\* Readings that spell a state in their own case, under the aliases too.
SpelledReadings ==
    {Reading({}, 305, 550, <<"absent", 0>>, "ON", Absent, Absent,
             Absent, Absent, Absent),
     Reading({}, 305, 550, <<"absent", 0>>, Absent, "On", Absent,
             Absent, "open", Absent)}

\* Readings that say a state under several aliases at once, or say it
\* empty under the first; one says the valve's too.
AliasReadings ==
    {Reading({}, 305, 550, <<"absent", 0>>, "", Absent, "off",
             Absent, Absent, "open"),
     Reading({}, 210, 550, <<"absent", 0>>, Absent, "On", "off",
             "Close", "open", Absent)}

\* Readings of the control loop: every field the reconciliation reads.
ControlReadings ==
    {Reading({}, t, h, <<"absent", 0>>, fs, rl, Absent, ls, Absent, Absent) :
        t \in SensorTemps, h \in SensorHumidities,
        fs \in {Absent, "on"}, rl \in {Absent, " off "},
        ls \in {Absent, "Close"}}

SensorPayloads ==
    ControlReadings
        \cup SpelledReadings
        \cup AliasReadings
        \cup {NotJson}
        \cup {Reading({"humidity"}, 210, 0, <<"absent", 0>>, Absent, Absent,
                      Absent, Absent, Absent, Absent)}
        \cup {Reading({}, 305, 550, <<"iso", 48>>, Absent, Absent,
                      Absent, Absent, Absent, Absent)}
        \cup {Reading({}, 210, 550, <<"iso", -1>>, Absent, Absent,
                      Absent, Absent, Absent, Absent)}

Links == {"up", "down", "rejecting", "broken"}
DbStates == {"up", "error", "down"}

Next ==
    \/ \E m \in StatusMessages : OnStatusMessage(m.topic, m.payload)
    \/ \E payload \in SensorPayloads : OnSensorMessage(payload)
    \/ \E m \in OtherMessages : OnOtherMessage(m.topic, m.payload)
    \/ \E b \in BOOLEAN : set_optimization_status(b)
    \/ \E l \in Links : LinkChanges(l)

Spec == Init /\ [][Next]_vars

(***************************************************************************)
(* The rule engine on its own: a temperature and a humidity are drawn, and *)
(* get_combined_control_recommendation is applied to them.                 *)
(***************************************************************************)
TempMargin == 50
HumidityMargin == 50

DecideTemps ==
    (TEMP_CRITICAL_LOW - TempMargin)..(TEMP_CRITICAL_HIGH + TempMargin)
DecideHumidities ==
    (HUMIDITY_OPTIMAL_MIN - HumidityMargin)..(HUMIDITY_OPTIMAL_MAX + HumidityMargin)

InitDecide ==
    /\ last_fan_state = None
    /\ last_lid_state = None
    /\ last_valve_state = None
    /\ setting_value = Absent
    /\ db = "up"
    /\ db_conn = "open"
    /\ link = "up"
    /\ msg = NoMessage
    /\ enabled = None
    /\ control = NoControl
    /\ current_fan_state = None
    /\ current_lid_state = None
    /\ cmds = <<>>
    /\ inserted = <<>>
    /\ pc = "idle"
    /\ status_response = None
    /\ put_response = None
    /\ sensor_data = {}
    /\ users = {}
    /\ request = NoRequest
    /\ response = NoResponse
    /\ arg_temp \in DecideTemps
    /\ arg_humidity \in DecideHumidities
    /\ result = NoControl

Decide ==
    /\ result = NoControl
    /\ result' = get_combined_control_recommendation(arg_temp, arg_humidity)
    /\ UNCHANGED <<tracker, store, db_conn, link, handled, status_response,
                   put_response, arg_temp, arg_humidity, api>>

SpecDecide == InitDecide /\ [][Decide]_vars

Decided == result # NoControl

(***************************************************************************)
(* Ingestion: the listener with a database that fails and comes back, the  *)
(* optimization setting as the API and the database hold it, and readings  *)
(* with every kind of timestamp.                                           *)
(***************************************************************************)
\* Timestamps: none, an empty one, one that is no date, and dates around the
\* two limits of save_sensor_data.
IngestTimestamps ==
    {<<"absent", 0>>, <<"empty", 0>>, <<"invalid", FUTURE_LIMIT_HOURS + 1>>,
     <<"iso", 12>>,
     <<"iso", FUTURE_LIMIT_HOURS>>, <<"iso", FUTURE_LIMIT_HOURS + 1>>,
     <<"iso", 0 - PAST_LIMIT_HOURS>>, <<"iso", 0 - PAST_LIMIT_HOURS - 1>>}

BareReading(missing, temperature, humidity, timestamp) ==
    Reading(missing, temperature, humidity, timestamp,
            Absent, Absent, Absent, Absent, Absent, Absent)

IngestPayloads ==
    {BareReading({}, 305, 550, ts) : ts \in IngestTimestamps}
        \cup {Reading({}, 210, 550, <<"absent", 0>>, "on", Absent, Absent,
                      Absent, Absent, Absent)}
        \cup {NotJson,
              BareReading({"temperature"}, 0, 550, <<"absent", 0>>),
              BareReading({"humidity"}, 305, 0, <<"iso", 12>>),
              BareReading({"temperature", "humidity"}, 0, 0, <<"absent", 0>>)}

IngestStatusMessages ==
    StatusOn(MQTT_STATUS_FAN_TOPIC, {"stopped"})
        \cup StatusOn(MQTT_STATUS_LID_TOPIC, {"CLOSED"})

\* What the system_settings row may hold when the listener starts: nothing,
\* or a text written by hand.
StoredSettings == {Absent, "True", "FALSE", "yes"}

InitIngest ==
    /\ last_fan_state = None
    /\ last_lid_state = None
    /\ last_valve_state = None
    /\ setting_value \in StoredSettings
    /\ db = "up"
    /\ db_conn = "open"
    /\ link = "up"
    /\ msg = NoMessage
    /\ enabled = None
    /\ control = NoControl
    /\ current_fan_state = None
    /\ current_lid_state = None
    /\ cmds = <<>>
    /\ inserted = <<>>
    /\ pc = "idle"
    /\ status_response = None
    /\ put_response = None
    /\ sensor_data = {}
    /\ users = {}
    /\ request = NoRequest
    /\ response = NoResponse
    /\ arg_temp = 0
    /\ arg_humidity = 0
    /\ result = NoControl

NextIngest ==
    \/ \E m \in IngestStatusMessages : OnStatusMessage(m.topic, m.payload)
    \/ \E payload \in IngestPayloads : OnSensorMessage(payload)
    \/ \E b \in BOOLEAN : set_optimization_status(b)
    \/ get_optimization_status
    \/ \E d \in DbStates : DbChanges(d)

SpecIngest == InitIngest /\ [][NextIngest]_vars

(***************************************************************************)
(* The status handler over the whole vocabulary: every synonym and every   *)
(* standard word, in upper case and in another, from every actuator.       *)
(***************************************************************************)
StatusWords ==
    {"running", "Start", "stopped", "stop", "opened", "closed", "Close",
     "on", "off", "open", "auto",
     "RUNNING", "START", "STOPPED", "STOP", "OPENED", "CLOSED", "CLOSE",
     "ON", "OFF", "OPEN", "AUTO", Absent}

VocabularyMessages ==
    StatusOn(MQTT_STATUS_FAN_TOPIC, StatusWords)
        \cup StatusOn(MQTT_STATUS_LID_TOPIC, StatusWords)
        \cup StatusOn(MQTT_STATUS_VALVE_TOPIC, StatusWords)

NextStatus ==
    \E m \in VocabularyMessages : OnStatusMessage(m.topic, m.payload)

SpecStatus == Init /\ [][NextStatus]_vars

(***************************************************************************)
(* The sensor-data query over stores of every shape: rows inside and       *)
(* outside the window, on its edges, older than a year, a day ahead, and    *)
(* two of one timestamp.                                                    *)
(***************************************************************************)
Row(timestamp, temperature) ==
    [timestamp |-> timestamp, temperature |-> temperature, humidity |-> 550]

\* The listener stores no reading more than a day ahead of its clock.
StoredRows ==
    {Row(24 * 60, 301), Row(0, 250), Row(end_date_utc, 249),
     Row(-1000, 240), Row(-1000, 241), Row(start_date_utc(1), 230),
     Row(-3000, 220), Row(-600000, 210)}

DaysValues == {0, 1, 7, 365, 366}
Sessions == {"UTC", "other"}

InitQuery ==
    /\ last_fan_state = None
    /\ last_lid_state = None
    /\ last_valve_state = None
    /\ setting_value = Absent
    /\ db = "up"
    /\ db_conn = "open"
    /\ link = "up"
    /\ msg = NoMessage
    /\ enabled = None
    /\ control = NoControl
    /\ current_fan_state = None
    /\ current_lid_state = None
    /\ cmds = <<>>
    /\ inserted = <<>>
    /\ pc = "idle"
    /\ status_response = None
    /\ put_response = None
    /\ sensor_data \in SUBSET StoredRows
    /\ users = {}
    /\ request = NoRequest
    /\ response = NoResponse
    /\ arg_temp = 0
    /\ arg_humidity = 0
    /\ result = NoControl

NextQuery ==
    \/ \E days \in DaysValues, session \in Sessions : get_sensor_data(days, session)
    \/ \E d \in DbStates : DbChanges(d)

SpecQuery == InitQuery /\ [][NextQuery]_vars

(***************************************************************************)
(* Registration with passwords around the limit of 72 bytes.               *)
(***************************************************************************)
Chars(n, bytes) == [i \in 1..n |-> bytes]

Passwords ==
    {Chars(5, 1), Chars(6, 1), Chars(72, 1), Chars(24, 3),
     Chars(73, 1), Chars(71, 1) \o <<2>>}

UserInputs ==
    {[username |-> u, email |-> e, password |-> p] :
        u \in {"ana", "ben"}, e \in {"ana@farm", "ben@farm"}, p \in Passwords}

NextRegister ==
    \/ \E user_data \in UserInputs : register(user_data)
    \/ \E d \in DbStates : DbChanges(d)

SpecRegister == Init /\ [][NextRegister]_vars

(***************************************************************************)
(* The listener and the API side by side: the handling of a reading in its *)
(* steps, with the requests of the API, the devices' status messages and   *)
(* the changes of the database and of the link between any two of them.    *)
(***************************************************************************)
ConcurrentPayloads ==
    {BareReading({}, 305, 550, <<"absent", 0>>),
     BareReading({}, 210, 550, <<"absent", 0>>),
     Reading({}, 210, 550, <<"absent", 0>>, "on", Absent, Absent,
             "open", Absent, Absent),
     NotJson}

NextConcurrent ==
    \/ \E payload \in ConcurrentPayloads : SaveReading(payload)
    \/ ControlSetting
    \/ ControlFan
    \/ ControlLid
    \/ \E m \in IngestStatusMessages : NextStatusMessage(m.topic, m.payload)
    \/ \E b \in BOOLEAN : set_optimization_status(b)
    \/ get_optimization_status
    \/ \E l \in Links : LinkChanges(l)
    \/ \E d \in DbStates : DbChanges(d)

SpecConcurrent == InitIngest /\ [][NextConcurrent]_vars

(***************************************************************************)
(* The claims.                                                             *)
(***************************************************************************)
IsReading == msg.topic = MQTT_SENSOR_TOPIC
Reconciled == IsReading /\ enabled = "True"

FanCalls == {i \in DOMAIN cmds : cmds[i].topic = MQTT_CMD_FAN_TOPIC}
LidCalls == {i \in DOMAIN cmds : cmds[i].topic = MQTT_CMD_LID_TOPIC}

\* The lid's two spellings of one state: the hardware's CLOSE is the
\* tracker's CLOSED.
LidWord(state) == IF state = "CLOSE" THEN "CLOSED" ELSE state

\* C1: whenever a reading is reconciled with optimization enabled, the
\* current known state of an actuator is UNKNOWN and the decision for it is
\* not NONE (ON or OFF, OPEN or CLOSED), exactly one command for that
\* actuator is emitted for that reading.
C1_UnknownStateAlwaysEmitsOnce ==
    Reconciled =>
        /\ (current_fan_state = "UNKNOWN" /\ control.fan_action \in {"ON", "OFF"})
              => Cardinality(FanCalls) = 1
        /\ (current_lid_state = "UNKNOWN" /\ control.lid_action \in {"OPEN", "CLOSED"})
              => Cardinality(LidCalls) = 1

\* C2: a command is emitted for an actuator only if the desired action is
\* not NONE and differs from the current known state of that actuator (the
\* lid's CLOSE counting as CLOSED); none is emitted when they are equal, and
\* none for any other topic.
C2_EmitsOnlyOnDifference ==
    /\ (cmds # <<>>) => Reconciled
    /\ \A i \in DOMAIN cmds :
          \/ /\ i \in FanCalls
             /\ control.fan_action \in {"ON", "OFF"}
             /\ control.fan_action # current_fan_state
          \/ /\ i \in LidCalls
             /\ control.lid_action \in {"OPEN", "CLOSED"}
             /\ LidWord(control.lid_action) # LidWord(current_lid_state)

\* C2's case: a reading that reports the lid as CLOSE while CLOSED is
\* desired gets no lid command, and its fan, reported ON while OFF is
\* desired, gets one.
C2_Witness ==
    /\ Reconciled
    /\ control.lid_action = "CLOSED"
    /\ current_lid_state = "CLOSE"
    /\ LidCalls = {}
    /\ control.fan_action = "OFF"
    /\ current_fan_state = "ON"
    /\ FanCalls # {}

\* C3: when publishing a command fails (not connected, rc # 0, or an
\* exception), the tracker's known state of that actuator is left as it was.
C3_FailedPublishLeavesState ==
    [][\A i \in DOMAIN cmds' :
          (cmds'[i].outcome # "published") =>
              /\ (cmds'[i].topic = MQTT_CMD_FAN_TOPIC)
                    => last_fan_state' = last_fan_state
              /\ (cmds'[i].topic = MQTT_CMD_LID_TOPIC)
                    => last_lid_state' = last_lid_state]_vars

NoActuatorFields(payload) ==
    /\ payload.fan_state = Absent
    /\ payload.relay = Absent
    /\ payload.fan = Absent
    /\ payload.lid_state = Absent
    /\ payload.lid = Absent

\* C4: after a command publish for an actuator has failed, the next reading
\* reconciled with the same desired action for it (no status message in
\* between, no actuator-state fields in the reading, the link up again)
\* emits that command again.
C4_FailedCommandIsRetried ==
    [][(/\ Reconciled
        /\ link = "up"
        /\ link' = "up"
        /\ msg'.topic = MQTT_SENSOR_TOPIC
        /\ enabled' = "True"
        /\ NoActuatorFields(msg'.payload))
       => \A i \in DOMAIN cmds :
             (/\ cmds[i].outcome # "published"
              /\ (i \in FanCalls) => control'.fan_action = control.fan_action
              /\ (i \in LidCalls) => control'.lid_action = control.lid_action)
             => \E j \in DOMAIN cmds' :
                   /\ cmds'[j].topic = cmds[i].topic
                   /\ cmds'[j].action = cmds[i].action]_vars

\* C5: when a command for an actuator is emitted, the tracker's known state
\* of that actuator is the desired action at once, before any status
\* message; a desired CLOSED is sent as CLOSE and recorded as CLOSED.
C5_OptimisticUpdate ==
    \A i \in DOMAIN cmds :
        (cmds[i].outcome = "published") =>
            /\ (i \in FanCalls) =>
                  /\ cmds[i].action = control.fan_action
                  /\ last_fan_state = control.fan_action
            /\ (i \in LidCalls) =>
                  /\ cmds[i].action =
                        (IF control.lid_action = "CLOSED"
                         THEN "CLOSE"
                         ELSE control.lid_action)
                  /\ last_lid_state = control.lid_action

\* C5's case: CLOSE has been published and the tracker holds CLOSED.
C5_Witness ==
    \E i \in LidCalls :
        /\ cmds[i].outcome = "published"
        /\ cmds[i].action = "CLOSE"
        /\ control.lid_action = "CLOSED"
        /\ last_lid_state = "CLOSED"

\* The normalized form of the statuses the actuators report here, written
\* out: what the tracker is to hold after the message.
ReportedState(device_type, status) ==
    CASE status = "running" -> "ON"
      [] status = "stopped" -> "OFF"
      [] status = "auto" -> "AUTO"
      [] status = "opened" -> "OPEN"
      [] status \in {Absent, ""} -> ""
      [] status \in {"CLOSED", "Close"} ->
            IF device_type = "lid" THEN "CLOSED" ELSE "CLOSE"

IsActuatorStatus(m) ==
    /\ m.topic \in {MQTT_STATUS_FAN_TOPIC, MQTT_STATUS_LID_TOPIC,
                    MQTT_STATUS_VALVE_TOPIC}
    /\ m.payload.json
    /\ m.payload.status # NotAString

\* C6: after a status message for the fan, the lid or the valve, the
\* tracker's state of that actuator is the normalized reported status,
\* whatever it was before, and the other two states are as they were.
C6_StatusIsLastWrite ==
    [][IsActuatorStatus(msg') =>
          LET device_type == DeviceType(msg'.topic)
              reported == ReportedState(device_type, msg'.payload.status)
          IN  /\ last_fan_state' =
                    (IF device_type = "fan" THEN reported ELSE last_fan_state)
              /\ last_lid_state' =
                    (IF device_type = "lid" THEN reported ELSE last_lid_state)
              /\ last_valve_state' =
                    (IF device_type = "valve" THEN reported ELSE last_valve_state)]_vars

\* C6's case: the fan reports stopped after the tracker had it ON, the lid
\* and the valve keep what they held.
C6_Witness ==
    /\ IsActuatorStatus(msg)
    /\ msg.topic = MQTT_STATUS_FAN_TOPIC
    /\ msg.payload.status = "stopped"
    /\ last_fan_state = "OFF"
    /\ last_lid_state = "OPEN"
    /\ last_valve_state = "CLOSE"

\* C7: for every temperature > 30.0 and every humidity the decision is
\* fan ON, lid OPEN.
C7_EmergencyCooling ==
    (Decided /\ arg_temp > 300) =>
        result.fan_action = "ON" /\ result.lid_action = "OPEN"

\* C7's case: hot and dry, where humidity alone asks for OFF and CLOSED.
C7_Witness ==
    /\ Decided
    /\ arg_temp > 300
    /\ arg_humidity < 400
    /\ result.fan_action = "ON"
    /\ result.lid_action = "OPEN"

\* C8: for every temperature < 10.0 and every humidity, humidity > 70.0
\* included, the decision is fan OFF, lid CLOSED.
C8_EmergencyHeating ==
    (Decided /\ arg_temp < 100) =>
        result.fan_action = "OFF" /\ result.lid_action = "CLOSED"

\* C8's case: cold and humid, where humidity alone asks for ON and OPEN.
C8_Witness ==
    /\ Decided
    /\ arg_temp < 100
    /\ arg_humidity > 700
    /\ result.fan_action = "OFF"
    /\ result.lid_action = "CLOSED"

\* C9: for 10.0 <= temperature <= 30.0 and humidity > 70.0 the decision is
\* fan ON, lid OPEN, also below 18.0 where temperature alone asks for OFF
\* and CLOSED.
C9_Dehumidify ==
    (Decided /\ arg_temp >= 100 /\ arg_temp <= 300 /\ arg_humidity > 700) =>
        result.fan_action = "ON" /\ result.lid_action = "OPEN"

\* C9's case: cool (below 18.0, not below 10.0) and humid.
C9_Witness ==
    /\ Decided
    /\ arg_temp >= 100
    /\ arg_temp < 180
    /\ arg_humidity > 700
    /\ result.fan_action = "ON"
    /\ result.lid_action = "OPEN"

\* C10: outside the emergency tier and with humidity <= 70.0, temperature
\* decides wherever it has an opinion: 24.0 < temperature <= 30.0 gives
\* ON and OPEN even with humidity < 40.0, 10.0 <= temperature < 18.0 gives
\* OFF and CLOSED; only for 18.0 <= temperature <= 24.0 does humidity
\* decide, and humidity < 40.0 gives OFF and CLOSED.
C10_TemperatureBeforeHumidity ==
    (Decided /\ arg_humidity <= 700) =>
        /\ (arg_temp > 240 /\ arg_temp <= 300) =>
              result.fan_action = "ON" /\ result.lid_action = "OPEN"
        /\ (arg_temp >= 100 /\ arg_temp < 180) =>
              result.fan_action = "OFF" /\ result.lid_action = "CLOSED"
        /\ (arg_temp >= 180 /\ arg_temp <= 240 /\ arg_humidity < 400) =>
              result.fan_action = "OFF" /\ result.lid_action = "CLOSED"

\* C10's case: warm and dry, temperature asks for ON and OPEN and humidity
\* for OFF and CLOSED.
C10_Witness ==
    /\ Decided
    /\ arg_temp > 240
    /\ arg_temp <= 300
    /\ arg_humidity < 400
    /\ result.fan_action = "ON"
    /\ result.lid_action = "OPEN"

\* C11: for every temperature in the optimal band (18.0 <= temperature <=
\* 24.0) and every humidity in the optimal band (40.0 <= humidity <= 70.0)
\* the decision is fan OFF, lid CLOSED.
C11_OptimalDefault ==
    (Decided /\ arg_temp >= 180 /\ arg_temp <= 240
             /\ arg_humidity >= 400 /\ arg_humidity <= 700) =>
        result.fan_action = "OFF" /\ result.lid_action = "CLOSED"

\* C11's case: 20.0 and 50.0, where neither rule has an opinion on the fan.
C11_Witness ==
    /\ Decided
    /\ arg_temp = 200
    /\ arg_humidity = 500
    /\ result.fan_action = "OFF"
    /\ result.lid_action = "CLOSED"

\* C12: every comparison is strict, a boundary value belongs to the optimal
\* side of its comparison.  A temperature of exactly 30.0 is too_high and
\* not critical, exactly 10.0 is too_low and not critical (so humidity above
\* 70.0 still gets ON and OPEN), exactly 18.0 or 24.0 is optimal; a humidity
\* of exactly 40.0 or 70.0 is optimal (so 70.0 does not dehumidify: the
\* optimal band gets OFF and CLOSED, a cool temperature decides itself).
C12_StrictBoundaries ==
    Decided =>
        /\ (arg_temp = 300) => result.temp_status = "too_high"
        /\ (arg_temp = 100) =>
              /\ result.temp_status = "too_low"
              /\ (arg_humidity > 700) =>
                    result.fan_action = "ON" /\ result.lid_action = "OPEN"
        /\ (arg_temp \in {180, 240}) =>
              /\ result.temp_status = "optimal"
              /\ (arg_humidity >= 400 /\ arg_humidity <= 700) =>
                    result.fan_action = "OFF" /\ result.lid_action = "CLOSED"
        /\ (arg_humidity \in {400, 700}) =>
              /\ result.humidity_status = "optimal"
              /\ (arg_temp >= 180 /\ arg_temp <= 240) =>
                    result.fan_action = "OFF" /\ result.lid_action = "CLOSED"
        /\ (arg_humidity = 700 /\ arg_temp >= 100 /\ arg_temp < 180) =>
              result.fan_action = "OFF" /\ result.lid_action = "CLOSED"

\* C12's case: exactly 10.0 with humidity above 70.0 is dehumidified, not
\* heated.
C12_Witness ==
    /\ Decided
    /\ arg_temp = 100
    /\ arg_humidity > 700
    /\ result.temp_status = "too_low"
    /\ result.fan_action = "ON"
    /\ result.lid_action = "OPEN"

\* A reading parse_json_message accepts: JSON with temperature and humidity.
Parseable(payload) == payload.json /\ payload.missing = {}

\* A date more than 1 day (24 hours) after the processing time.
IsFuture(payload) ==
    payload.timestamp[1] = "iso" /\ payload.timestamp[2] > 24

\* The row a reading is to leave, given the timestamp to store.
RowOf(payload, timestamp) ==
    [timestamp |-> timestamp,
     temperature |-> payload.temperature,
     humidity |-> payload.humidity]

\* A step that handles a message other than the last one handled.
SensorArrives == msg' # msg /\ msg'.topic = MQTT_SENSOR_TOPIC

\* C14: a reading whose timestamp is more than 1 day in the future is
\* dropped entirely: no row is inserted, it is not control-evaluated (no
\* decision is computed for it), no command is emitted and the tracker is
\* left as it was.
C14_FutureReadingIsDropped ==
    [][(SensorArrives /\ Parseable(msg'.payload) /\ IsFuture(msg'.payload))
          => /\ inserted' = <<>>
             /\ control' = NoControl
             /\ cmds' = <<>>
             /\ tracker' = tracker]_vars

\* C15: every row inserted has a timestamp at most 1 day after and at most
\* 365 days before the processing time; with the database up, a reading
\* dated within that range is inserted with its own timestamp, and one dated
\* more than 365 days back is inserted with the processing time.
C15_PersistedTimestampInRange ==
    [][(SensorArrives /\ Parseable(msg'.payload)) =>
          LET ts == msg'.payload.timestamp
              written == db = "up" /\ db_conn = "open"
          IN  /\ \A i \in DOMAIN inserted' :
                    /\ inserted'[i].timestamp <= 24
                    /\ inserted'[i].timestamp >= 0 - 8760
              /\ (written /\ ts[1] = "iso" /\ ts[2] <= 24 /\ ts[2] >= 0 - 8760)
                    => inserted' = <<RowOf(msg'.payload, ts[2])>>
              /\ (written /\ ts[1] = "iso" /\ ts[2] < 0 - 8760)
                    => inserted' = <<RowOf(msg'.payload, 0)>>]_vars

\* C15's case: a reading dated more than a year back has been inserted with
\* the processing time.
C15_Witness ==
    /\ IsReading
    /\ Parseable(msg.payload)
    /\ msg.payload.timestamp[1] = "iso"
    /\ msg.payload.timestamp[2] < 0 - 8760
    /\ inserted = <<RowOf(msg.payload, 0)>>

\* C16: a telemetry message that is no JSON, or lacks temperature or
\* humidity, is dropped: no row, no control evaluation, no command, no
\* change of the tracker or of anything else the listener holds.
C16_MalformedIsDropped ==
    [][(SensorArrives /\ ~Parseable(msg'.payload))
          => /\ inserted' = <<>>
             /\ enabled' = None
             /\ control' = NoControl
             /\ cmds' = <<>>
             /\ tracker' = tracker
             /\ db_conn' = db_conn
             /\ store' = store]_vars

\* C16's case: a reading with a temperature that asks for cooling and no
\* humidity has been handled, nothing inserted, nothing evaluated.
C16_Witness ==
    /\ IsReading
    /\ msg.payload.json
    /\ msg.payload.missing = {"humidity"}
    /\ msg.payload.temperature > 300
    /\ inserted = <<>>
    /\ enabled = None
    /\ cmds = <<>>

TrueTexts == {"true", "True", "TRUE"}
StoredDisabled == setting_value # Absent /\ setting_value \notin TrueTexts

\* What a status message of the ingestion runs is to leave in the tracker.
StatusUpdatesTracker ==
    IsActuatorStatus(msg') =>
        LET device_type == DeviceType(msg'.topic)
            reported == ReportedState(device_type, msg'.payload.status)
        IN  /\ (device_type = "fan") => last_fan_state' = reported
            /\ (device_type = "lid") => last_lid_state' = reported
            /\ (device_type = "valve") => last_valve_state' = reported

\* C18 as stated: while the stored setting is disabled, no reading causes a
\* command or a change of the tracker; readings are still inserted (the
\* database accepting them), status messages still update the tracker.
\* Readings dated more than 1 day ahead, which are not to be evaluated at
\* all, are left out of it.
C18_DisabledMeansNoCommands ==
    [][(msg' # msg /\ StoredDisabled) =>
          /\ (msg'.topic = MQTT_SENSOR_TOPIC /\ Parseable(msg'.payload)
                  /\ ~IsFuture(msg'.payload)) =>
                /\ cmds' = <<>>
                /\ tracker' = tracker
                /\ (db = "up" /\ db_conn = "open") => inserted' # <<>>
          /\ StatusUpdatesTracker]_vars

\* C18 amended: while the stored setting is disabled and the listener's
\* read of it succeeds (the database up), no reading causes a command or a
\* change of the tracker; readings are still inserted (the connection
\* open), status messages still update the tracker.
C18_DisabledAndReadMeansNoCommands ==
    [][(msg' # msg /\ StoredDisabled) =>
          /\ (msg'.topic = MQTT_SENSOR_TOPIC /\ Parseable(msg'.payload)
                  /\ db = "up") =>
                /\ cmds' = <<>>
                /\ tracker' = tracker
                /\ (db_conn = "open" /\ ~IsFuture(msg'.payload))
                      => inserted' # <<>>
          /\ StatusUpdatesTracker]_vars

\* C18's case: the setting has been put to false, and a reading that asks
\* for cooling with nothing known of the actuators has been inserted and
\* has caused no command.
C18_Witness ==
    /\ IsReading
    /\ Parseable(msg.payload)
    /\ msg.payload.temperature > 300
    /\ setting_value = "false"
    /\ db = "up"
    /\ enabled = "False"
    /\ inserted # <<>>
    /\ cmds = <<>>
    /\ last_fan_state = None

\* C19: the setting fails open.  The listener's check and the GET endpoint
\* both report enabled when the setting is absent or the read raises, and
\* with the database up they report disabled exactly for a stored text other
\* than 'true' in any case.
C19_SettingFailsOpen ==
    [][LET fails_open == db # "up" \/ setting_value = Absent
           reads_true == fails_open \/ setting_value \in TrueTexts
       IN  /\ (msg' # msg /\ enabled' # None) =>
                 enabled' = (IF reads_true THEN "True" ELSE "False")
           /\ (status_response' # None) =>
                 status_response' = (IF reads_true THEN "True" ELSE "False")]_vars

\* C19's case: the stored setting is false, the database raises, and both
\* the listener (for the reading handled last) and the endpoint have
\* reported enabled.
C19_Witness ==
    /\ IsReading
    /\ setting_value = "false"
    /\ db = "error"
    /\ enabled = "True"
    /\ status_response = "True"

\* C20: when the insert of a reading has failed on the database, the reading
\* is lost (a later step inserts rows of its own message only) and the
\* handler keeps running: the next status message updates the tracker, and
\* the next reading that finds the database up is control-evaluated and
\* inserted.
C20_LostReadingHandlerKeepsRunning ==
    [][(/\ IsReading
        /\ Parseable(msg.payload)
        /\ ~IsFuture(msg.payload)
        /\ inserted = <<>>
        /\ msg' # msg)
          => /\ \A i \in DOMAIN inserted' :
                   /\ msg'.topic = MQTT_SENSOR_TOPIC
                   /\ inserted'[i].temperature = msg'.payload.temperature
                   /\ inserted'[i].humidity = msg'.payload.humidity
             /\ StatusUpdatesTracker
             /\ (msg'.topic = MQTT_SENSOR_TOPIC /\ Parseable(msg'.payload)
                     /\ db = "up") =>
                   /\ enabled' # None
                   /\ ~IsFuture(msg'.payload) => inserted' # <<>>]_vars

(***************************************************************************)
(* The words on the wire.                                                  *)
(***************************************************************************)
\* C23: every command handed to the broker is in the hardware's vocabulary:
\* on the fan's command topic ON or OFF, on the lid's command topic OPEN or
\* CLOSE (never CLOSED), and on no other topic.
C23_HardwareVocabulary ==
    \A i \in DOMAIN cmds :
        \/ /\ cmds[i].topic = MQTT_CMD_FAN_TOPIC
           /\ cmds[i].action \in {"ON", "OFF"}
        \/ /\ cmds[i].topic = MQTT_CMD_LID_TOPIC
           /\ cmds[i].action \in {"OPEN", "CLOSE"}

\* C23's case: one reading for which the decision OFF/CLOSED went out as
\* OFF to the fan and CLOSE to the lid.
C23_Witness ==
    /\ control.fan_action = "OFF"
    /\ control.lid_action = "CLOSED"
    /\ \E i \in FanCalls : cmds[i].action = "OFF" /\ cmds[i].outcome = "published"
    /\ \E i \in LidCalls : cmds[i].action = "CLOSE" /\ cmds[i].outcome = "published"

Emitted(topic, action) ==
    \E i \in DOMAIN cmds : cmds[i].topic = topic /\ cmds[i].action = action

ReportedFan == Or(Or(msg.payload.fan_state, msg.payload.relay), msg.payload.fan)
ReportedLid == Or(msg.payload.lid_state, msg.payload.lid)

\* C25: a reading's actuator-state field counts whatever its case: a fan
\* reported as on, On or ON is ON, a lid reported as open or OPEN is OPEN;
\* with that state desired no command goes out, with the opposite one
\* desired OFF (CLOSE) does.
C25_CaseInsensitiveState ==
    Reconciled =>
        /\ (ReportedFan \in {"on", "On", "ON"}) =>
              /\ current_fan_state = "ON"
              /\ (control.fan_action = "ON") => FanCalls = {}
              /\ (control.fan_action = "OFF") => Emitted(MQTT_CMD_FAN_TOPIC, "OFF")
        /\ (ReportedLid \in {"open", "OPEN"}) =>
              /\ current_lid_state = "OPEN"
              /\ (control.lid_action = "OPEN") => LidCalls = {}
              /\ (control.lid_action = "CLOSED") => Emitted(MQTT_CMD_LID_TOPIC, "CLOSE")

\* C25's case: ON and OPEN are desired, the reading says relay On and lid
\* open, and nothing goes out.
C25_Witness ==
    /\ Reconciled
    /\ msg.payload.relay = "On"
    /\ msg.payload.lid = "open"
    /\ control.fan_action = "ON"
    /\ control.lid_action = "OPEN"
    /\ cmds = <<>>

(***************************************************************************)
(* Who writes the tracker.                                                 *)
(***************************************************************************)
\* The message just handled is a reading for which a command on this topic
\* was handed to publish_command (and, if asked, went out).
CommandIssued(topic, outcomes) ==
    /\ msg.topic = MQTT_SENSOR_TOPIC
    /\ \E i \in DOMAIN cmds :
          cmds[i].topic = topic /\ cmds[i].outcome \in outcomes

Outcomes == {"published", "not connected", "rc nonzero", "exception"}

\* A step changes an actuator's state only as a status message on that
\* actuator's topic or as a reading with a command for it whose publish
\* ended in one of the given ways; a step that handles no message (a request
\* to the API, the broker link or the database changing) changes none.
TrackerFrame(outcomes) ==
    /\ (handled' = handled) => tracker' = tracker
    /\ (last_fan_state' # last_fan_state) =>
          \/ msg'.topic = MQTT_STATUS_FAN_TOPIC
          \/ CommandIssued(MQTT_CMD_FAN_TOPIC, outcomes)'
    /\ (last_lid_state' # last_lid_state) =>
          \/ msg'.topic = MQTT_STATUS_LID_TOPIC
          \/ CommandIssued(MQTT_CMD_LID_TOPIC, outcomes)'
    /\ (last_valve_state' # last_valve_state) =>
          msg'.topic = MQTT_STATUS_VALVE_TOPIC

\* C24: the tracker's state of an actuator changes only by a status message
\* for that actuator or by the optimistic update that goes with a command
\* emitted (published) for it; a reading that emits no command for the
\* actuator, whatever state fields it carries, and every request to the API
\* leave it as it was.
C24_TrackerChangesOnlyBySources ==
    [][TrackerFrame({"published"})]_vars

\* The same frame with every call of publish_command counted as an
\* emission, whether or not the publish went out.
C24_FrameUpToFailedPublish ==
    [][TrackerFrame(Outcomes)]_vars

(***************************************************************************)
(* The status vocabulary.                                                  *)
(***************************************************************************)
\* What each reported word is to become, written out word by word.
CanonicalStatus(device_type, status) ==
    CASE status \in {"running", "RUNNING", "Start", "START"} -> "ON"
      [] status \in {"stopped", "STOPPED", "stop", "STOP"} -> "OFF"
      [] status \in {"opened", "OPENED"} -> "OPEN"
      [] status \in {"closed", "CLOSED", "Close", "CLOSE"} ->
            IF device_type = "lid" THEN "CLOSED" ELSE "CLOSE"
      [] status \in {"on", "ON"} -> "ON"
      [] status \in {"off", "OFF"} -> "OFF"
      [] status \in {"open", "OPEN"} -> "OPEN"
      [] status \in {"auto", "AUTO"} -> "AUTO"
      [] status = Absent -> ""

TrackerOf(device_type) ==
    CASE device_type = "fan" -> last_fan_state
      [] device_type = "lid" -> last_lid_state
      [] device_type = "valve" -> last_valve_state

\* C21: after a status message the tracker holds the normalized word,
\* whatever the case of the reported one: RUNNING and START are ON, STOPPED
\* and STOP are OFF, OPENED is OPEN, CLOSED and CLOSE are one spelling per
\* actuator (CLOSED for the lid, CLOSE for the fan and the valve), and any
\* other word is itself in upper case.
C21_VocabularyIsNormalized ==
    IsActuatorStatus(msg) =>
        TrackerOf(DeviceType(msg.topic)) =
            CanonicalStatus(DeviceType(msg.topic), msg.payload.status)

\* C21's case: the lid has just reported closed in lower case and is held
\* as CLOSED, after the fan reported CLOSED and the valve Start.
C21_Witness ==
    /\ msg.topic = MQTT_STATUS_LID_TOPIC
    /\ msg.payload.status = "closed"
    /\ last_lid_state = "CLOSED"
    /\ last_fan_state = "CLOSE"
    /\ last_valve_state = "ON"

\* C22: normalization is idempotent: whatever a status message has left in
\* a tracker, normalizing that value again for the same actuator returns it
\* unchanged.
C22_NormalizationIsIdempotent ==
    \A device_type \in {"fan", "lid", "valve"} :
        (TrackerOf(device_type) # None) =>
            NormalizedStatus(device_type, TrackerOf(device_type))
                = TrackerOf(device_type)

\* C22's case: every kind of normalized value is held at once, the lid's
\* CLOSED, the fan's CLOSE and a word that is in no map, which the valve
\* reported already normalized.
C22_Witness ==
    /\ last_lid_state = "CLOSED"
    /\ last_fan_state = "CLOSE"
    /\ last_valve_state = "AUTO"
    /\ msg.topic = MQTT_STATUS_VALVE_TOPIC
    /\ msg.payload.status = "AUTO"

(***************************************************************************)
(* The optimization setting, written and read.                             *)
(***************************************************************************)
BoolText(b) == IF b THEN "True" ELSE "False"

\* The step is the handling of a reading: no request is answered by it and
\* neither the database nor the broker link changes in it.
ReadingStep ==
    /\ put_response' = None
    /\ status_response' = None
    /\ db' = db
    /\ link' = link
    /\ msg'.topic = MQTT_SENSOR_TOPIC

\* C28: the optimization setting is read after write.  A PUT of b that
\* succeeds leaves a store from which the GET endpoint and the handler's
\* check both read b; no step but a successful PUT changes the stored value
\* (a failed PUT leaves the previous one, and so does everything else), so
\* that every GET and every handler check up to the next PUT reads b from an
\* available store; a PUT of the value already put changes nothing.
C28_ReadAfterWrite ==
    [][/\ \A b \in BOOLEAN :
             (put_response' = BoolText(b)) =>
                 /\ db' = "up"
                 /\ optimization_status' = b
                 /\ is_optimization_enabled' = b
                 /\ (put_response = BoolText(b)) => store' = store
       /\ (put_response' \notin {"True", "False"}) =>
             setting_value' = setting_value
       /\ (setting_value \in {"true", "false"} /\ db = "up") =>
             /\ (status_response' # None) =>
                   status_response' = BoolText(setting_value = "true")
             /\ (ReadingStep /\ enabled' # None) =>
                   enabled' = BoolText(setting_value = "true")]_vars

\* C28's case: with True stored at first, false has been put, a PUT has
\* failed since, and the GET answers False.
C28_Witness ==
    /\ setting_value = "false"
    /\ db = "up"
    /\ status_response = "False"

(***************************************************************************)
(* The sensor-data query.                                                  *)
(***************************************************************************)
Answered == request.op = "get_sensor_data" /\ response.code = 200
Returned == {response.data[i] : i \in DOMAIN response.data}
AsReturned(row) == SensorDataPoint(row, request.session)

\* The stored readings of the greatest timestamp.
MostRecent ==
    {r \in sensor_data : \A q \in sensor_data : q.timestamp <= r.timestamp}

WindowIsEmpty == WindowQuery(request.days) = {<<>>}

C27_ChronologicalOrder ==
    Answered =>
        \A i, j \in DOMAIN response.data :
            (i < j) => response.data[i].timestamp <= response.data[j].timestamp

\* C27's case: the window is empty and the fallback's rows, read newest
\* first, are answered oldest first.
C27_Witness ==
    /\ Answered
    /\ WindowIsEmpty
    /\ Len(response.data) = 3
    /\ response.data[1].timestamp < response.data[2].timestamp
    /\ response.data[2].timestamp < response.data[3].timestamp

(***************************************************************************)
(* Registration.                                                           *)
(***************************************************************************)
\* The step is a registration that nothing but the password can stop: the
\* database is up, the name and the address are free, the password has its
\* six characters.
RegistersFreely ==
    /\ db' = db
    /\ db = "up"
    /\ request'.op = "register"
    /\ Len(request'.user_data.password) >= MIN_PASSWORD_LENGTH
    /\ \A u \in users :
          /\ u.username # request'.user_data.username
          /\ u.email # request'.user_data.email

\* C29: registering with a password of more than 72 bytes does not fail:
\* the password is cut to the 72 bytes (whole characters) the hash takes,
\* and the user is created with the hash of that.
C29_LongPasswordIsTruncated ==
    [][(RegistersFreely
          /\ Utf8Length(request'.user_data.password) > MAX_PASSWORD_BYTES)
       => /\ response'.code = 201
          /\ [username |-> request'.user_data.username,
              email |-> request'.user_data.email,
              hashed_password |->
                  <<"bcrypt", Utf8Prefix(request'.user_data.password,
                                         MAX_PASSWORD_BYTES)>>] \in users']_vars

\* What the code does instead: at most 72 bytes register, more are refused
\* with 400 and no user is created.
C29_LongPasswordIsRefused ==
    [][RegistersFreely =>
          IF Utf8Length(request'.user_data.password) > MAX_PASSWORD_BYTES
          THEN response'.code = 400 /\ users' = users
          ELSE response'.code = 201]_vars

(***************************************************************************)
(* The decision, as a pair.                                                *)
(***************************************************************************)
\* C31: every decision has an opinion on both actuators, the fan ON or OFF
\* and the lid OPEN or CLOSED, never none; and ON goes with OPEN, OFF with
\* CLOSED.
C31_DefinitePairedDecision ==
    Decided =>
        /\ result.fan_action \in {"ON", "OFF"}
        /\ result.lid_action \in {"OPEN", "CLOSED"}
        /\ (result.fan_action = "ON") <=> (result.lid_action = "OPEN")

\* C31's case: warm and dry, where the temperature rule says ON and OPEN
\* and the humidity rule OFF and CLOSED.
C31_Witness ==
    /\ Decided
    /\ arg_temp = 250
    /\ arg_humidity = 390
    /\ result.fan_action = "ON"
    /\ result.lid_action = "OPEN"

(***************************************************************************)
(* Where the current state comes from.                                     *)
(***************************************************************************)
\* The states the readings spell, in the tracker's spelling.
Spelled(v) ==
    CASE v \in {"on", "On", "ON"} -> "ON"
      [] v \in {"off", " off "} -> "OFF"
      [] v = "open" -> "OPEN"
      [] v = "Close" -> "CLOSE"

Says(v) == v \notin {Absent, ""}

\* The first alias that says something decides; with none of them the
\* tracker's state does, and with that unset or empty the state is UNKNOWN.
Resolved(aliases, last_state) ==
    IF \E i \in DOMAIN aliases : Says(aliases[i])
    THEN LET first == CHOOSE i \in DOMAIN aliases :
                          /\ Says(aliases[i])
                          /\ \A j \in 1..(i - 1) : ~Says(aliases[j])
         IN  Spelled(aliases[first])
    ELSE IF last_state \in {None, ""} THEN "UNKNOWN" ELSE last_state

\* C32: when a reading is reconciled, the current state of the fan is what
\* the reading says under fan_state, else under relay, else under fan, and
\* that of the lid what it says under lid_state, else under lid; only a
\* reading that says nothing leaves it to the tracker's last state (UNKNOWN
\* when there is none).  A fan the reading calls ON gets no ON command and
\* gets the OFF command, whatever the tracker held.
C32_ReadingBeforeTracker ==
    [][(ReadingStep /\ enabled' = "True") =>
          LET p == msg'.payload
          IN  /\ current_fan_state' =
                    Resolved(<<p.fan_state, p.relay, p.fan>>, last_fan_state)
              /\ current_lid_state' =
                    Resolved(<<p.lid_state, p.lid>>, last_lid_state)
              /\ (current_fan_state' = "ON" /\ control'.fan_action = "OFF")
                    => Emitted(MQTT_CMD_FAN_TOPIC, "OFF")'
              /\ (current_fan_state' = "ON" /\ control'.fan_action = "ON")
                    => ~Emitted(MQTT_CMD_FAN_TOPIC, "ON")']_vars

\* C32's case: relay says On and fan says off, lid_state says Close and lid
\* says open: the fan is ON and is sent OFF, the lid is CLOSE and is sent
\* nothing.
C32_Witness ==
    /\ Reconciled
    /\ msg.payload.relay = "On"
    /\ msg.payload.fan = "off"
    /\ msg.payload.lid_state = "Close"
    /\ msg.payload.lid = "open"
    /\ current_fan_state = "ON"
    /\ current_lid_state = "CLOSE"
    /\ Emitted(MQTT_CMD_FAN_TOPIC, "OFF")
    /\ LidCalls = {}

(***************************************************************************)
(* Commands are not repeated.                                              *)
(***************************************************************************)
\* C33: of two consecutive readings that get the same decision, both
\* reconciled with optimization enabled, with no status message between
\* them and no actuator-state field in either, the second emits no command
\* for any actuator (and so a run of such readings emits at most one
\* command per actuator, with its first).
C33_NoRepeatedCommand ==
    [][(/\ Reconciled
        /\ NoActuatorFields(msg.payload)
        /\ ReadingStep
        /\ enabled' = "True"
        /\ NoActuatorFields(msg'.payload)
        /\ control'.fan_action = control.fan_action
        /\ control'.lid_action = control.lid_action)
       => cmds' = <<>>]_vars

\* C33's case: a reading without state fields that asks for ON and OPEN
\* finds both in the tracker, the valve never heard of, and emits nothing.
C33_Witness ==
    /\ Reconciled
    /\ NoActuatorFields(msg.payload)
    /\ control.fan_action = "ON"
    /\ control.lid_action = "OPEN"
    /\ current_fan_state = "ON"
    /\ current_lid_state = "OPEN"
    /\ last_valve_state = None
    /\ cmds = <<>>

(***************************************************************************)
(* Status messages that say nothing.                                       *)
(***************************************************************************)
\* The step is the handling of a message on a status topic.
StatusStep ==
    /\ put_response' = None
    /\ status_response' = None
    /\ db' = db
    /\ link' = link
    /\ IsStatusTopic(msg'.topic)

\* A status message that is no JSON, or comes from no actuator.
SaysNothing(m) ==
    /\ IsStatusTopic(m.topic)
    /\ \/ ~m.payload.json
       \/ DeviceType(m.topic) \notin {"fan", "lid", "valve"}

\* C34: a status message that is no JSON, or whose topic ends in something
\* other than fan, lid or valve, leaves the three tracker states as they
\* were; the message after it is handled as any other (a reading is stored
\* and evaluated, a status is taken over); and no status message makes the
\* listener publish a command.
C34_BadStatusIsIgnored ==
    [][/\ (StatusStep /\ SaysNothing(msg')) => tracker' = tracker
       /\ StatusStep => cmds' = <<>>
       /\ (SaysNothing(msg) /\ ReadingStep /\ Parseable(msg'.payload)
              /\ ~IsFuture(msg'.payload) /\ db = "up" /\ db_conn = "open")
             => inserted' # <<>> /\ enabled' # None
       /\ (SaysNothing(msg) /\ StatusStep /\ IsActuatorStatus(msg'))
             => CASE DeviceType(msg'.topic) = "fan" -> last_fan_state' # None
                  [] DeviceType(msg'.topic) = "lid" -> last_lid_state' # None
                  [] DeviceType(msg'.topic) = "valve" -> last_valve_state' # None]_vars

\* C34's case: the pump has reported, the fan and the lid are still known
\* as ON and OPEN from the commands sent, and nothing was published.
C34_Witness ==
    /\ SaysNothing(msg)
    /\ DeviceType(msg.topic) = "pump"
    /\ last_fan_state = "ON"
    /\ last_lid_state = "OPEN"
    /\ last_valve_state = None
    /\ cmds = <<>>

(***************************************************************************)
(* A status message without a status.                                      *)
(***************************************************************************)
\* C35: a status message for an actuator whose status is missing or empty
\* puts the empty string into the tracker; reconciliation takes the empty
\* string for UNKNOWN, so that the next reading (one that says nothing of
\* the actuator itself) with ON (OPEN) desired emits the command again.
C35_EmptyStatusForgets ==
    [][/\ (StatusStep /\ IsActuatorStatus(msg')
              /\ msg'.payload.status \in {Absent, ""})
             => CASE DeviceType(msg'.topic) = "fan" -> last_fan_state' = ""
                  [] DeviceType(msg'.topic) = "lid" -> last_lid_state' = ""
                  [] DeviceType(msg'.topic) = "valve" -> last_valve_state' = ""
       /\ (ReadingStep /\ enabled' = "True" /\ NoActuatorFields(msg'.payload))
             => /\ (last_fan_state = "") =>
                      /\ current_fan_state' = "UNKNOWN"
                      /\ (control'.fan_action = "ON")
                            => Emitted(MQTT_CMD_FAN_TOPIC, "ON")'
                /\ (last_lid_state = "") =>
                      /\ current_lid_state' = "UNKNOWN"
                      /\ (control'.lid_action = "OPEN")
                            => Emitted(MQTT_CMD_LID_TOPIC, "OPEN")']_vars

\* C35's case: the lid is known to be OPEN, the fan is not known any more,
\* and a reading that asks for ON and OPEN sends ON to the fan alone.
C35_Witness ==
    /\ Reconciled
    /\ NoActuatorFields(msg.payload)
    /\ control.fan_action = "ON"
    /\ current_fan_state = "UNKNOWN"
    /\ current_lid_state = "OPEN"
    /\ Emitted(MQTT_CMD_FAN_TOPIC, "ON")
    /\ LidCalls = {}

(***************************************************************************)
(* The valve.                                                              *)
(***************************************************************************)
\* C36: nothing is ever published on the valve's command topic, and the
\* tracker's valve state changes only by a status message on the valve's
\* status topic: no reading, whatever it measures or reports, emits a
\* valve command or changes the valve state.
C36_ValveIsNeverCommanded ==
    [][/\ \A i \in DOMAIN cmds' : cmds'[i].topic # MQTT_CMD_VALVE_TOPIC
       /\ (last_valve_state' # last_valve_state)
             => StatusStep /\ msg'.topic = MQTT_STATUS_VALVE_TOPIC
       /\ ReadingStep => last_valve_state' = last_valve_state]_vars

\* C36's case: a reading that says the valve is open has been reconciled
\* and commands went out, and the valve is still held as it last reported.
C36_Witness ==
    /\ Reconciled
    /\ msg.payload.valve_state = "open"
    /\ cmds # <<>>
    /\ last_valve_state = "CLOSE"

\* The fan and the lid have both been reconciled with the decision, each by
\* the rule of its branch of check_thresholds_and_control.
BothReconciled ==
    /\ enabled = "True"
    /\ control.fan_action \in {"ON", "OFF"}
    /\ control.lid_action \in {"OPEN", "CLOSED"}
    /\ Emitted(MQTT_CMD_FAN_TOPIC, "ON")
          <=> (control.fan_action = "ON" /\ current_fan_state # "ON")
    /\ Emitted(MQTT_CMD_FAN_TOPIC, "OFF")
          <=> (control.fan_action = "OFF" /\ current_fan_state = "ON")
    /\ Emitted(MQTT_CMD_LID_TOPIC, "OPEN")
          <=> (control.lid_action = "OPEN" /\ current_lid_state # "OPEN")
    /\ Emitted(MQTT_CMD_LID_TOPIC, "CLOSE")
          <=> (control.lid_action = "CLOSED" /\ current_lid_state = "OPEN")

\* Neither has been: no decision was taken and no command was sent.
NeitherReconciled ==
    /\ enabled \in {None, "False"}
    /\ control = NoControl
    /\ cmds = <<>>

\* A request to the API is the step.
ApiStep == put_response' # None \/ status_response' # None

\* C37: the setting is read once for a reading, before the decision: once
\* the fan is next, what was read, the decision and the two current states
\* stay as they are to the end of the handling, whatever a PUT stores in
\* the meantime.  Every reading whose handling is over has had both the fan
\* and the lid reconciled, or neither.  A request to the API leaves the
\* handler where it stands and its message, locals and trackers as they
\* are; the step the handler is at can be taken in every state, and a
\* message is taken up only when the one before has been handled.
C37_NoPartialOutcome ==
    /\ []((pc = "idle" /\ IsReading) => (BothReconciled \/ NeitherReconciled))
    /\ [][/\ pc \in {"fan", "lid"}
               => /\ enabled' = enabled
                  /\ control' = control
                  /\ current_fan_state' = current_fan_state
                  /\ current_lid_state' = current_lid_state
          /\ (enabled' # enabled /\ enabled' # None) => pc = "setting"
          /\ (pc # "idle" /\ pc' = "idle" /\ enabled' = "False")
               => tracker' = tracker /\ cmds' = <<>>
          /\ pc' = "setting" => tracker' = tracker
          /\ ApiStep => handled' = handled /\ tracker' = tracker
          /\ pc = "setting" => ENABLED ControlSetting
          /\ pc = "fan" => ENABLED ControlFan
          /\ pc = "lid" => ENABLED ControlLid
          /\ msg' # msg => pc = "idle"]_vars

\* C37's case: a reading is being handled with the setting read as enabled,
\* the command for the fan has gone out, the lid is next and is due a
\* command, and a PUT has just stored false.
C37_Witness ==
    /\ pc = "lid"
    /\ IsReading
    /\ enabled = "True"
    /\ FanCalls # {}
    /\ control.lid_action = "OPEN"
    /\ current_lid_state # "OPEN"
    /\ put_response = "False"
    /\ setting_value = "false"
    /\ db = "up"

====
